---- MODULE Spec2Model ----
(***************************************************************************)
(* DataForge: the cleaning / ML-preparation pipeline.                      *)
(*                                                                         *)
(* Representation.  A JavaScript string is a sequence of one-character     *)
(* strings, so that trim, case folding, name normalisation and             *)
(* stringification are computed character by character.  A cell value is   *)
(* a record [t, n, s]: t is the runtime type tag, n the number, s the      *)
(* string.  Numbers are fixed-point integers in units of 1/Unit; results   *)
(* of divisions and roots are rounded to that unit.  A row (a JS object)   *)
(* is a sequence of <<key, value>> entries in insertion order.  A table    *)
(* row additionally carries ref: the index of the object of the uploaded   *)
(* table it is (the same JS object), or 0 for an object created later.     *)
(***************************************************************************)
EXTENDS Integers, Sequences, FiniteSets, TLC

\* ------------------------------------------------------------------ bounds
\* Number of panel changes one edit makes to the default configuration or to
\* the configuration with every default switch turned off.
MaxDeviations == 1
\* Number of pipeline runs (ML or basic) started in one session.
MaxRuns == 1
\* Number of times a configuration panel is edited in one session.
MaxEdits == 1
\* longest list of columns selected for one stage
MaxSelected == 2

\* Fixed-point unit of numbers (two decimals, as the mean fill rounds).
Unit == 100

\* ------------------------------------------------------------- sequences
RECURSIVE SeqSum(_)
SeqSum(s) == IF s = <<>> THEN 0 ELSE Head(s) + SeqSum(Tail(s))

RECURSIVE FilterSeq(_, _)
\* Array.prototype.filter with the predicate given as a set of accepted indices
FilterSeq(s, keep) ==
  IF s = <<>> THEN <<>>
  ELSE LET rest == FilterSeq(SubSeq(s, 1, Len(s) - 1), keep)
       IN IF Len(s) \in keep THEN Append(rest, s[Len(s)]) ELSE rest

Range(s) == {s[i] : i \in DOMAIN s}

Contains(s, x) == \E i \in DOMAIN s : s[i] = x

IndexOf(s, x) == CHOOSE i \in DOMAIN s : s[i] = x /\ \A j \in 1..(i - 1) : s[j] # x

RECURSIVE Flatten(_)
Flatten(ss) == IF ss = <<>> THEN <<>> ELSE Head(ss) \o Flatten(Tail(ss))

Min2(a, b) == IF a < b THEN a ELSE b
Max2(a, b) == IF a > b THEN a ELSE b
Abs(a) == IF a < 0 THEN -a ELSE a

\* Integer division rounding to nearest, halves towards +infinity (Math.round)
RoundDiv(a, b) ==
  LET num == IF b < 0 THEN -a ELSE a
      den == Abs(b)
  IN (2 * num + den) \div (2 * den)

\* Math.floor(a / b) for b > 0
FloorDiv(a, b) == a \div b

\* Math.sqrt on fixed-point numbers: the root of n/Unit, in units of 1/Unit
RECURSIVE SqrtSearch(_, _, _)
SqrtSearch(n, lo, hi) ==
  IF lo >= hi THEN lo
  ELSE LET mid == (lo + hi + 1) \div 2
       IN IF mid * mid <= n THEN SqrtSearch(n, mid, hi) ELSE SqrtSearch(n, lo, mid - 1)
\* floor of the square root of a natural number
ISqrt(n) == SqrtSearch(n, 0, Min2(n, 46340))
SqrtFx(n) == ISqrt(n * Unit)

\* Math.sqrt(average of Math.pow(v - mean, 2)) over fixed-point numbers: the
\* differences are taken in a unit coarse enough for their squares to fit
RECURSIVE CoarseUnit(_, _)
CoarseUnit(widest, k) == IF widest \div k <= 10000 THEN k ELSE CoarseUnit(widest, 10 * k)
StdOf(nums, mean) ==
  LET diffs == [i \in DOMAIN nums |-> nums[i] - mean]
      widest == IF \E i \in DOMAIN diffs : diffs[i] < 0 \/ diffs[i] > 0
                THEN CHOOSE w \in {IF diffs[i] < 0 THEN -diffs[i] ELSE diffs[i] : i \in DOMAIN diffs} :
                       \A j \in DOMAIN diffs : diffs[j] <= w /\ -diffs[j] <= w
                ELSE 0
      k == CoarseUnit(widest, 1)
      squares == [i \in DOMAIN diffs |-> (diffs[i] \div k) * (diffs[i] \div k)]
      total == IF Len(squares) = 0 THEN 0
               ELSE LET add[i \in 0..Len(squares)] == IF i = 0 THEN 0 ELSE add[i - 1] + squares[i]
                    IN add[Len(squares)]
  IN IF Len(nums) = 0 THEN 0 ELSE ISqrt(total \div Len(nums)) * k

\* --------------------------------------------------------------- strings
UpperChars == <<"A","B","C","D","E","F","G","H","I","J","K","L","M",
                "N","O","P","Q","R","S","T","U","V","W","X","Y","Z">>
LowerChars == <<"a","b","c","d","e","f","g","h","i","j","k","l","m",
                "n","o","p","q","r","s","t","u","v","w","x","y","z">>
DigitChars == <<"0","1","2","3","4","5","6","7","8","9">>
\* Characters in code-unit order, for String comparison (Array.prototype.sort)
CharOrder == <<"\n", " ", "!", "\"", "#", ",", "-", ".", "/">> \o DigitChars
             \o <<":", "?">> \o UpperChars \o <<"\\", "_">> \o LowerChars \o <<"|">>

IsUpper(c) == Contains(UpperChars, c)
IsLower(c) == Contains(LowerChars, c)
IsDigit(c) == Contains(DigitChars, c)
IsSpace(c) == c \in {" ", "\n", "\t"}
\* \w of a JavaScript regular expression
IsWordChar(c) == IsUpper(c) \/ IsLower(c) \/ IsDigit(c) \/ c = "_"

ToLowerChar(c) == IF IsUpper(c) THEN LowerChars[IndexOf(UpperChars, c)] ELSE c
ToUpperChar(c) == IF IsLower(c) THEN UpperChars[IndexOf(LowerChars, c)] ELSE c

\* String.prototype.toLowerCase / toUpperCase
ToLowerCase(s) == [i \in DOMAIN s |-> ToLowerChar(s[i])]
ToUpperCase(s) == [i \in DOMAIN s |-> ToUpperChar(s[i])]

CharCode(c) == IF Contains(CharOrder, c) THEN IndexOf(CharOrder, c) ELSE Len(CharOrder) + 1

RECURSIVE StrLess(_, _)
\* a < b on strings (code-unit lexicographic order)
StrLess(a, b) ==
  IF b = <<>> THEN FALSE
  ELSE IF a = <<>> THEN TRUE
  ELSE IF CharCode(Head(a)) # CharCode(Head(b)) THEN CharCode(Head(a)) < CharCode(Head(b))
  ELSE StrLess(Tail(a), Tail(b))

RECURSIVE SortStrings(_)
\* Array.prototype.sort() with the default comparator, on an array of strings
SortStrings(ss) ==
  IF ss = <<>> THEN <<>>
  ELSE LET m == CHOOSE i \in DOMAIN ss :
                  /\ \A j \in DOMAIN ss : ~StrLess(ss[j], ss[i])
                  /\ \A j \in 1..(i - 1) : StrLess(ss[i], ss[j])
       IN <<ss[m]>> \o SortStrings(FilterSeq(ss, DOMAIN ss \ {m}))

RECURSIVE TrimStart(_)
TrimStart(s) == IF s # <<>> /\ IsSpace(Head(s)) THEN TrimStart(Tail(s)) ELSE s

RECURSIVE TrimEnd(_)
TrimEnd(s) ==
  IF s # <<>> /\ IsSpace(s[Len(s)]) THEN TrimEnd(SubSeq(s, 1, Len(s) - 1)) ELSE s

\* String.prototype.trim
Trim(s) == TrimEnd(TrimStart(s))

RECURSIVE ReplaceSpaceRuns(_, _)
\* s.replace(/\s+/g, by)
ReplaceSpaceRuns(s, by) ==
  IF s = <<>> THEN <<>>
  ELSE IF IsSpace(Head(s)) THEN by \o ReplaceSpaceRuns(TrimStart(s), by)
  ELSE <<Head(s)>> \o ReplaceSpaceRuns(Tail(s), by)

RECURSIVE DecStr(_)
\* decimal digits of a natural number
DecStr(n) == IF n < 10 THEN <<DigitChars[n + 1]>>
             ELSE DecStr(n \div 10) \o <<DigitChars[(n % 10) + 1]>>

RECURSIVE DropTrailingZeros(_)
DropTrailingZeros(s) ==
  IF s # <<>> /\ s[Len(s)] = "0" THEN DropTrailingZeros(SubSeq(s, 1, Len(s) - 1)) ELSE s

\* the fraction digits of a fixed-point number, trailing zeros dropped
FracStr(m) ==
  LET d == DecStr(m)
      width == Len(DecStr(Unit)) - 1
      padded == [i \in 1..(width - Len(d)) |-> "0"] \o d
  IN DropTrailingZeros(padded)

\* Number.prototype.toString of the fixed-point number n
NumStr(n) ==
  LET a == Abs(n)
      whole == DecStr(a \div Unit)
      frac == FracStr(a % Unit)
  IN (IF n < 0 THEN <<"-">> ELSE <<>>) \o whole
       \o (IF frac = <<>> THEN <<>> ELSE <<".">> \o frac)

\* ------------------------------------------------------------ cell values
Null == [t |-> "null", n |-> 0, s |-> <<>>]
\* the value undefined: a key that is absent, or present holding undefined
Undef == [t |-> "undef", n |-> 0, s |-> <<>>]
NaN == [t |-> "nan", n |-> 0, s |-> <<>>]
Num(x) == [t |-> "num", n |-> x, s |-> <<>>]
Str(x) == [t |-> "str", n |-> 0, s |-> x]
Bool(b) == [t |-> "bool", n |-> IF b THEN 1 ELSE 0, s |-> <<>>]
\* a whole number
Whole(x) == Num(x * Unit)

\* typeof v === 'number' / 'string'
IsNumber(v) == v.t \in {"num", "nan"}
IsString(v) == v.t = "str"
\* v === null || v === undefined || v === ''
IsMissing(v) == v.t \in {"null", "undef"} \/ (v.t = "str" /\ v.s = <<>>)
\* v === null || v === undefined
IsNullish(v) == v.t \in {"null", "undef"}

\* String(v)
StringOf(v) ==
  CASE v.t = "str" -> v.s
    [] v.t = "num" -> NumStr(v.n)
    [] v.t = "nan" -> <<"N", "a", "N">>
    [] v.t = "null" -> <<"n", "u", "l", "l">>
    [] v.t = "undef" -> <<"u", "n", "d", "e", "f", "i", "n", "e", "d">>
    [] v.t = "bool" -> IF v.n = 1 THEN <<"t", "r", "u", "e">> ELSE <<"f", "a", "l", "s", "e">>

\* the escaping of JSON.stringify inside a string literal
JsonEscape(s) ==
  Flatten([i \in DOMAIN s |->
            CASE s[i] = "\"" -> <<"\\", "\"">>
              [] s[i] = "\\" -> <<"\\", "\\">>
              [] s[i] = "\n" -> <<"\\", "n">>
              [] OTHER -> <<s[i]>>])

\* JSON.stringify(v) as it appears after Array.prototype.join: undefined joins
\* as the empty string, NaN serialises as null
JsonStringify(v) ==
  CASE v.t = "str" -> <<"\"">> \o JsonEscape(v.s) \o <<"\"">>
    [] v.t = "num" -> NumStr(v.n)
    [] v.t \in {"nan", "null"} -> <<"n", "u", "l", "l">>
    [] v.t = "undef" -> <<>>
    [] v.t = "bool" -> StringOf(v)

RECURSIVE Join(_, _)
\* Array.prototype.join
Join(ss, sep) ==
  IF ss = <<>> THEN <<>>
  ELSE IF Len(ss) = 1 THEN ss[1]
  ELSE ss[1] \o sep \o Join(Tail(ss), sep)

\* ------------------------------------------------------------------- rows
\* Object.keys(o)
Keys(o) == [i \in DOMAIN o |-> o[i].k]
Has(o, k) == \E i \in DOMAIN o : o[i].k = k
\* o[k]
Get(o, k) == IF Has(o, k) THEN o[CHOOSE i \in DOMAIN o : o[i].k = k].v ELSE Undef
\* o[k] = v: an existing key keeps its position, a new key is appended
Put(o, k, v) ==
  IF Has(o, k) THEN [i \in DOMAIN o |-> IF o[i].k = k THEN [k |-> k, v |-> v] ELSE o[i]]
  ELSE Append(o, [k |-> k, v |-> v])
\* delete o[k]
Del(o, k) == FilterSeq(o, {i \in DOMAIN o : o[i].k # k})

RECURSIVE PutAll(_, _, _)
\* o[ks[i]] = f[ks[i]] for each i in order
PutAll(o, ks, f) ==
  IF ks = <<>> THEN o ELSE PutAll(Put(o, Head(ks), f[Head(ks)]), Tail(ks), f)

\* a table row: ref is the uploaded-table object this row is, or 0
Fresh(o) == [ref |-> 0, obj |-> o]
\* row[col] of a table row
Cell(r, col) == Get(r.obj, col)
\* row[k] = v on the row object itself
WriteInPlace(r, k, v) == [ref |-> r.ref, obj |-> Put(r.obj, k, v)]
\* { ...row } and { ...row, [k]: v }
Copy(r) == Fresh(r.obj)
With(r, k, v) == Fresh(Put(r.obj, k, v))
\* data.map(row => row[col])
Column(data, col) == [i \in DOMAIN data |-> Cell(data[i], col)]
\* the table without object identities
Plain(data) == [i \in DOMAIN data |-> data[i].obj]

RECURSIVE SortNums(_)
\* [...values].sort((a, b) => a - b)
SortNums(ns) ==
  IF ns = <<>> THEN <<>>
  ELSE LET m == CHOOSE i \in DOMAIN ns :
                  /\ \A j \in DOMAIN ns : ns[i] <= ns[j]
                  /\ \A j \in 1..(i - 1) : ns[j] # ns[i]
       IN <<ns[m]>> \o SortNums(FilterSeq(ns, DOMAIN ns \ {m}))

\* the numbers of an array of values (typeof v === 'number'), NaN apart
Numbers(vs) == LET k == FilterSeq(vs, {i \in DOMAIN vs : vs[i].t = "num"})
               IN [i \in DOMAIN k |-> k[i].n]

RECURSIVE Distinct(_)
\* [...new Set(values)]: first occurrences, in order
Distinct(vs) ==
  IF vs = <<>> THEN <<>>
  ELSE LET rest == Distinct(SubSeq(vs, 1, Len(vs) - 1))
       IN IF Contains(rest, vs[Len(vs)]) THEN rest ELSE Append(rest, vs[Len(vs)])

\* number of occurrences of x in vs
Count(vs, x) == Cardinality({i \in DOMAIN vs : vs[i] = x})

\* ----------------------------------------------------- column statistics
\* the placeholder strings skipped by the mode
genericValues ==
  { <<"o","t","h","e","r">>, <<"u","n","k","n","o","w","n">>, <<"n","/","a">>,
    <<"n","a">>, <<"n","o","n","e">>, <<"m","i","s","s","i","n","g">>,
    <<"u","n","d","e","f","i","n","e","d">>,
    <<"n","o","t"," ","s","p","e","c","i","f","i","e","d">> }

\* the date pattern of the analyzer, tested at the start of the string:
\* dddd-dd-dd (the alternatives dd/dd/dddd and dd-dd-dddd match anywhere)
DateAt(s, i, seps, widths) ==
  /\ i + widths[1] + widths[2] + widths[3] + 1 <= Len(s)
  /\ \A j \in 0..(widths[1] - 1) : IsDigit(s[i + j])
  /\ s[i + widths[1]] = seps
  /\ \A j \in 1..widths[2] : IsDigit(s[i + widths[1] + j])
  /\ s[i + widths[1] + widths[2] + 1] = seps
  /\ \A j \in 1..widths[3] : IsDigit(s[i + widths[1] + widths[2] + 1 + j])
MatchesDatePattern(s) ==
  \/ DateAt(s, 1, "-", <<4, 2, 2>>)
  \/ \E i \in DOMAIN s : DateAt(s, i, "/", <<2, 2, 4>>) \/ DateAt(s, i, "-", <<2, 2, 4>>)

RECURSIVE ModeScan(_, _, _, _, _)
\* valueCounts.forEach: the first key whose count exceeds every earlier one
ModeScan(keys, vals, skipGeneric, best, maxCount) ==
  IF keys = <<>> THEN [mode |-> best, maxCount |-> maxCount]
  ELSE LET value == Head(keys)
           count == Count(vals, value)
           isGeneric == IsString(value) /\ ToLowerCase(value.s) \in genericValues
       IN IF (~skipGeneric \/ ~isGeneric) /\ count > maxCount
          THEN ModeScan(Tail(keys), vals, skipGeneric, value, count)
          ELSE ModeScan(Tail(keys), vals, skipGeneric, best, maxCount)

\* the record analyzeColumn returns
ColumnStatsOf(columnName, type, totalCount, uniqueCount, missingCount, mode, nums, sorted, mean) ==
  [ name |-> columnName,
    type |-> type,
    totalCount |-> totalCount,
    uniqueCount |-> uniqueCount,
    missingCount |-> missingCount,
    missingPercentage |-> IF totalCount > 0 THEN RoundDiv(missingCount * 100 * Unit, totalCount) ELSE 0,
    min |-> IF type = "number" THEN Num(sorted[1]) ELSE Undef,
    max |-> IF type = "number" THEN Num(sorted[Len(sorted)]) ELSE Undef,
    mean |-> IF type = "number" THEN Num(mean) ELSE Undef,
    median |-> IF type = "number"
               THEN Num(IF Len(sorted) % 2 # 0 THEN sorted[(Len(sorted) \div 2) + 1]
                        ELSE RoundDiv(sorted[Len(sorted) \div 2] + sorted[(Len(sorted) \div 2) + 1], 2))
               ELSE Undef,
    mode |-> mode,
    stdDev |-> IF type = "number" THEN Num(StdOf(nums, mean)) ELSE Undef,
    q1 |-> IF type = "number" THEN Num(sorted[((Len(sorted) * 25) \div 100) + 1]) ELSE Undef,
    q3 |-> IF type = "number" THEN Num(sorted[((Len(sorted) * 75) \div 100) + 1]) ELSE Undef ]

\* the type of a column from its value counts
InferType(numericCount, nonNullCount, stringCount, dateCount) ==
  IF numericCount = nonNullCount /\ numericCount > 0 THEN "number"
  ELSE IF stringCount > 0 /\ numericCount > 0 THEN "mixed"
  ELSE IF stringCount > 0 /\ 2 * dateCount > stringCount THEN "date"
  ELSE "string"

\* the result of the first scan alone
ModeOfFirstScan(keys, nonNullValues, first) == first.mode

\* the most frequent value: numbers first, then any value
ModeOf(keys, nonNullValues, first) ==
  IF first.mode = Undef /\ keys # <<>>
  THEN ModeScan(keys, nonNullValues, FALSE, Undef, first.maxCount).mode
  ELSE first.mode

\* the numeric summary of a column of the given type
NumericStatsOf(columnName, type, totalCount, uniqueCount, missingCount, mode, nums) ==
  ColumnStatsOf(columnName, type, totalCount, uniqueCount, missingCount, mode, nums, SortNums(nums),
                IF Len(nums) > 0 THEN RoundDiv(SeqSum(nums), Len(nums)) ELSE 0)

\* the summary of the non-missing values of a column
ValueStatsOf(columnName, totalCount, nonNullValues, numericValues, stringValues, keys) ==
  NumericStatsOf(columnName,
                 InferType(Len(numericValues), Len(nonNullValues), Len(stringValues),
                           Cardinality({i \in DOMAIN stringValues : MatchesDatePattern(stringValues[i].s)})),
                 totalCount,
                 Cardinality({StringOf(nonNullValues[i]) : i \in DOMAIN nonNullValues}),
                 totalCount - Len(nonNullValues),
                 ModeOf(keys, nonNullValues, ModeScan(keys, nonNullValues, TRUE, Undef, 0)),
                 Numbers(numericValues))

NonNullStatsOf(columnName, totalCount, nonNullValues) ==
  ValueStatsOf(columnName, totalCount, nonNullValues,
               FilterSeq(nonNullValues, {i \in DOMAIN nonNullValues : IsNumber(nonNullValues[i])}),
               FilterSeq(nonNullValues, {i \in DOMAIN nonNullValues : IsString(nonNullValues[i])}),
               Distinct(nonNullValues))

ValuesStatsOf(columnName, values) ==
  NonNullStatsOf(columnName, Len(values), FilterSeq(values, {i \in DOMAIN values : ~IsMissing(values[i])}))

analyzeColumn(data, columnName) == ValuesStatsOf(columnName, Column(data, columnName))

analyzeColumns(data, columns) == [i \in DOMAIN columns |-> analyzeColumn(data, columns[i])]

\* columnStats.find(s => s.name === col): the first entry, or none
HasStats(stats, col) == \E i \in DOMAIN stats : stats[i].name = col
FindStats(stats, col) ==
  stats[CHOOSE i \in DOMAIN stats : stats[i].name = col /\ \A j \in 1..(i - 1) : stats[j].name # col]

\* ------------------------------------------------------------ log entries
\* a CleaningLog entry; the timestamp (new Date()) is left out
Log(operation, column, rowsAffected, category) ==
  [operation |-> operation, column |-> column, rowsAffected |-> rowsAffected, category |-> category]
NoColumn == <<>>

\* --------------------------------------------------- cleaning operations
RECURSIVE DropFirstDuplicate(_, _, _, _)
\* a scan that stops at the first duplicate it drops
DropFirstDuplicate(data, columns, seen, kept) ==
  IF data = <<>> THEN kept
  ELSE LET row == Head(data)
           key == Join([i \in DOMAIN columns |-> JsonStringify(Cell(row, columns[i]))], <<"|">>)
       IN IF key \notin seen
          THEN DropFirstDuplicate(Tail(data), columns, seen \cup {key}, Append(kept, row))
          ELSE kept \o Tail(data)

RECURSIVE DedupeAdjacent(_, _, _, _)
\* a scan that remembers the key of the previous row only
DedupeAdjacent(data, columns, seen, kept) ==
  IF data = <<>> THEN kept
  ELSE LET row == Head(data)
           key == Join([i \in DOMAIN columns |-> JsonStringify(Cell(row, columns[i]))], <<"|">>)
       IN IF key \notin seen
          THEN DedupeAdjacent(Tail(data), columns, {key}, Append(kept, row))
          ELSE DedupeAdjacent(Tail(data), columns, {key}, kept)

RECURSIVE DedupeScan(_, _, _, _)
\* data.forEach of removeDuplicates: seen keys, kept rows
DedupeScan(data, columns, seen, kept) ==
  IF data = <<>> THEN kept
  ELSE LET row == Head(data)
           key == Join([i \in DOMAIN columns |-> JsonStringify(Cell(row, columns[i]))], <<"|">>)
       IN IF key \notin seen
          THEN DedupeScan(Tail(data), columns, seen \cup {key}, Append(kept, row))
          ELSE DedupeScan(Tail(data), columns, seen, kept)

\* the entry reports the rows kept instead of the rows removed
removeDuplicatesCountingKept(data, columns) ==
  LET uniqueData == DedupeScan(data, columns, {}, <<>>)
      duplicatesRemoved == Len(data) - Len(uniqueData)
  IN [ data |-> uniqueData,
       logs |-> IF duplicatesRemoved > 0
                THEN <<Log("Remove Duplicates", NoColumn, Len(uniqueData), "cleaning")>>
                ELSE <<>> ]

removeDuplicates(data, columns) ==
  LET uniqueData == DedupeScan(data, columns, {}, <<>>)
      duplicatesRemoved == Len(data) - Len(uniqueData)
  IN [ data |-> uniqueData,
       logs |-> IF duplicatesRemoved > 0
                THEN <<Log("Remove Duplicates", NoColumn, duplicatesRemoved, "cleaning")>>
                ELSE <<>> ]

\* matches / longer.length, in units of 1/Unit
stringSimilarity(s1, s2) ==
  IF s1 = s2 THEN Unit
  ELSE IF Len(s1) = 0 \/ Len(s2) = 0 THEN 0
  ELSE LET longer == IF Len(s1) > Len(s2) THEN s1 ELSE s2
           shorter == IF Len(s1) > Len(s2) THEN s2 ELSE s1
           matches == Cardinality({i \in DOMAIN shorter : Contains(longer, shorter[i])})
       IN RoundDiv(matches * Unit, Len(longer))

\* the score one column adds to matches, in units of 1/Unit
FieldScore(v1, v2) ==
  IF v1 = v2 /\ v1.t # "nan" THEN Unit
  ELSE IF v1.t = "num" /\ v2.t = "num"
       THEN LET diff == Abs(v1.n - v2.n)
                max == Max2(Max2(Abs(v1.n), Abs(v2.n)), Unit)
            IN IF diff * 100 < max THEN (9 * Unit) \div 10 ELSE 0
  ELSE IF IsString(v1) /\ IsString(v2)
       THEN stringSimilarity(ToLowerCase(v1.s), ToLowerCase(v2.s))
  ELSE 0

\* matches / total in units of 1/Unit; 0/0 is NaN and compares false (-1 here)
calculateRowSimilarity(row1, row2, columns) ==
  IF Len(columns) = 0 THEN -1
  ELSE RoundDiv(SeqSum([i \in DOMAIN columns |-> FieldScore(Cell(row1, columns[i]), Cell(row2, columns[i]))]),
                Len(columns))

RECURSIVE NearDedupeScan(_, _, _, _)
NearDedupeScan(data, columns, tolerance, kept) ==
  IF data = <<>> THEN kept
  ELSE LET row == Head(data)
           isDuplicate == \E i \in DOMAIN kept :
                             LET sim == calculateRowSimilarity(row, kept[i], columns)
                             IN sim >= 0 /\ sim >= tolerance
       IN NearDedupeScan(Tail(data), columns, tolerance,
                         IF isDuplicate THEN kept ELSE Append(kept, row))

removeNearDuplicates(data, columns, tolerance) ==
  LET uniqueData == NearDedupeScan(data, columns, tolerance, <<>>)
      removed == Len(data) - Len(uniqueData)
  IN [ data |-> uniqueData,
       logs |-> IF removed > 0
                THEN <<Log("Remove Near-Duplicates", NoColumn, removed, "cleaning")>>
                ELSE <<>> ]

\* strategy 'remove': the rows kept.  threshold is a number or Undef.
MissingRowsFilter(data, columns, threshold) ==
  LET missingCount(row) == Cardinality({i \in DOMAIN columns : IsMissing(Cell(row, columns[i]))})
      keep(row) == IF threshold # Undef
                   THEN Len(columns) > 0 /\ missingCount(row) * Unit <= threshold.n * Len(columns)
                   ELSE missingCount(row) = 0
  IN FilterSeq(data, {i \in DOMAIN data : keep(data[i])})

\* the value of the nearest row before (forward) or after (backward) row i
\* whose cell in the column is not missing, or null when there is none
FillSource(data, col, i, forward) ==
  LET cand == IF forward THEN {j \in 1..(i - 1) : ~IsMissing(Cell(data[j], col))}
              ELSE {j \in (i + 1)..Len(data) : ~IsMissing(Cell(data[j], col))}
  IN IF cand = {} THEN Null
     ELSE Cell(data[IF forward THEN CHOOSE j \in cand : \A k \in cand : k <= j
                    ELSE CHOOSE j \in cand : \A k \in cand : k >= j], col)

RECURSIVE FillScanOnce(_, _, _, _, _)
\* a scan that forgets the last valid value once it has filled a cell with it
FillScanOnce(data, col, indices, lastValidValue, columnFilled) ==
  IF indices = <<>> THEN [data |-> data, columnFilled |-> columnFilled]
  ELSE LET i == Head(indices)
           value == Cell(data[i], col)
       IN IF IsMissing(value)
          THEN IF lastValidValue # Null
               THEN FillScanOnce([data EXCEPT ![i] = With(data[i], col, lastValidValue)], col,
                                 Tail(indices), Null, columnFilled + 1)
               ELSE FillScanOnce(data, col, Tail(indices), lastValidValue, columnFilled)
          ELSE FillScanOnce(data, col, Tail(indices), value, columnFilled)

RECURSIVE FillScan(_, _, _, _, _)
\* indices.forEach of the forward / backward branch: lastValidValue is the
\* last non-missing value met, null before the first
FillScan(data, col, indices, lastValidValue, columnFilled) ==
  IF indices = <<>> THEN [data |-> data, columnFilled |-> columnFilled]
  ELSE LET i == Head(indices)
           value == Cell(data[i], col)
       IN IF IsMissing(value)
          THEN IF lastValidValue # Null
               THEN FillScan([data EXCEPT ![i] = With(data[i], col, lastValidValue)], col,
                             Tail(indices), lastValidValue, columnFilled + 1)
               ELSE FillScan(data, col, Tail(indices), lastValidValue, columnFilled)
          ELSE FillScan(data, col, Tail(indices), value, columnFilled)

\* the row indices in scan order
FillIndices(data, forward) ==
  [i \in DOMAIN data |-> IF forward THEN i ELSE Len(data) + 1 - i]

RECURSIVE FillDir(_, _, _, _)
\* columns.forEach of the forward / backward branch
FillDir(data, columns, forward, logs) ==
  IF columns = <<>> THEN [data |-> data, logs |-> logs]
  ELSE LET col == Head(columns)
           scanned == FillScan(data, col, FillIndices(data, forward), Null, 0)
       IN FillDir(scanned.data, Tail(columns), forward,
                  IF scanned.columnFilled > 0
                  THEN Append(logs, Log(IF forward THEN "Forward Fill" ELSE "Backward Fill",
                                        col, scanned.columnFilled, "cleaning"))
                  ELSE logs)

\* the value a column is filled with, or Null
FillValue(stats, strategy, constantValue) ==
  IF strategy = "constant" /\ constantValue # Undef THEN constantValue
  ELSE IF strategy = "mode" /\ stats.mode # Undef THEN stats.mode
  ELSE IF stats.type = "number"
       THEN IF strategy = "mean" /\ stats.mean # Undef
            THEN Num(RoundDiv(stats.mean.n * 100, Unit) * (Unit \div 100))
            ELSE IF strategy = "median" /\ stats.median # Undef THEN stats.median
            ELSE Null
  ELSE Null

RECURSIVE FillNullish(_, _, _, _, _, _)
\* a fill that takes only null and undefined cells as missing, not ''
FillNullish(data, columns, columnStats, strategy, constantValue, logs) ==
  IF columns = <<>> THEN [data |-> data, logs |-> logs]
  ELSE LET col == Head(columns)
           fillValue == IF HasStats(columnStats, col)
                        THEN FillValue(FindStats(columnStats, col), strategy, constantValue)
                        ELSE Null
           columnFilled == Cardinality({i \in DOMAIN data : IsNullish(Cell(data[i], col))})
       IN IF IsMissing(fillValue)
          THEN FillNullish(data, Tail(columns), columnStats, strategy, constantValue, logs)
          ELSE FillNullish([i \in DOMAIN data |->
                              IF IsNullish(Cell(data[i], col)) THEN With(data[i], col, fillValue)
                              ELSE data[i]],
                           Tail(columns), columnStats, strategy, constantValue,
                           IF columnFilled > 0
                           THEN Append(logs, Log("Fill Missing Values", col, columnFilled, "cleaning"))
                           ELSE logs)

RECURSIVE FillStat(_, _, _, _, _, _)
\* columns.forEach of the mean / median / mode / constant branch
FillStat(data, columns, columnStats, strategy, constantValue, logs) ==
  IF columns = <<>> THEN [data |-> data, logs |-> logs]
  ELSE LET col == Head(columns)
           fillValue == IF HasStats(columnStats, col)
                        THEN FillValue(FindStats(columnStats, col), strategy, constantValue)
                        ELSE Null
           isValidFillValue == ~IsMissing(fillValue)
           columnFilled == Cardinality({i \in DOMAIN data : IsMissing(Cell(data[i], col))})
       IN IF ~isValidFillValue
          THEN FillStat(data, Tail(columns), columnStats, strategy, constantValue, logs)
          ELSE FillStat([i \in DOMAIN data |->
                           IF IsMissing(Cell(data[i], col)) THEN With(data[i], col, fillValue)
                           ELSE data[i]],
                        Tail(columns), columnStats, strategy, constantValue,
                        IF columnFilled > 0
                        THEN Append(logs, Log("Fill Missing Values", col, columnFilled, "cleaning"))
                        ELSE logs)

handleMissingValues(data, columns, columnStats, strategy, constantValue, threshold) ==
  IF strategy = "remove"
  THEN LET resultData == MissingRowsFilter(data, columns, threshold)
           removed == Len(data) - Len(resultData)
       IN [ data |-> resultData,
            logs |-> IF removed > 0
                     THEN <<Log("Remove Missing Values", NoColumn, removed, "cleaning")>>
                     ELSE <<>> ]
  ELSE IF strategy \in {"forward", "backward"}
  THEN FillDir(data, columns, strategy = "forward", <<>>)
  ELSE FillStat(data, columns, columnStats, strategy, constantValue, <<>>)

\* value.trim().replace(/\s+/g, ' ')
TrimCell(s) == ReplaceSpaceRuns(Trim(s), <<" ">>)

\* original.toLowerCase().replace(/\b\w/g, c => c.toUpperCase())
TitleCase(s) ==
  LET l == ToLowerCase(s)
  IN [i \in DOMAIN l |->
        IF IsWordChar(l[i]) /\ (i = 1 \/ ~IsWordChar(l[i - 1])) THEN ToUpperChar(l[i]) ELSE l[i]]

\* original.toLowerCase().replace(/(^\w|[.!?]\s+\w)/g, c => c.toUpperCase())
SentenceCase(s) ==
  LET l == ToLowerCase(s)
      afterStop(i) == \E j \in 1..(i - 2) :
                        /\ l[j] \in {".", "!", "?"}
                        /\ \A k \in (j + 1)..(i - 1) : IsSpace(l[k])
  IN [i \in DOMAIN l |->
        IF IsWordChar(l[i]) /\ (i = 1 \/ afterStop(i)) THEN ToUpperChar(l[i]) ELSE l[i]]

CaseTransform(caseType, s) ==
  CASE caseType = "lower" -> ToLowerCase(s)
    [] caseType = "upper" -> ToUpperCase(s)
    [] caseType = "title" -> TitleCase(s)
    [] caseType = "sentence" -> SentenceCase(s)

\* what a string cell becomes: trimmed, or in the case asked for
CellTransform(kind, s) == IF kind = "trim" THEN TrimCell(s) ELSE CaseTransform(kind, s)

\* rows rebuilt by data.map(row => { const newRow = { ...row }; ... }) with
\* newRow[col] = the transformed cell, on the string cells it changes
ChangedCells(row, columns, kind) ==
  {i \in DOMAIN columns :
     IsString(Cell(row, columns[i]))
     /\ CellTransform(kind, Cell(row, columns[i]).s) # Cell(row, columns[i]).s}

MapStringCells(data, columns, kind) ==
  [ data |-> [r \in DOMAIN data |->
                Fresh(PutAll(data[r].obj, FilterSeq(columns, ChangedCells(data[r], columns, kind)),
                             [c \in Range(columns) |-> Str(CellTransform(kind, Cell(data[r], c).s))]))],
    count |-> SeqSum([r \in DOMAIN data |-> Cardinality(ChangedCells(data[r], columns, kind))]) ]

trimWhitespace(data, columns) ==
  LET res == MapStringCells(data, columns, "trim")
  IN [ data |-> res.data,
       logs |-> IF res.count > 0
                THEN <<Log("Trim Whitespace", NoColumn, res.count, "cleaning")>>
                ELSE <<>> ]

standardizeCase(data, columns, caseType) ==
  LET res == MapStringCells(data, columns, caseType)
  IN [ data |-> res.data,
       logs |-> IF res.count > 0
                THEN <<Log("Standardize Case", NoColumn, res.count, "cleaning")>>
                ELSE <<>> ]

RECURSIVE CollapseUnderscores(_)
\* s.replace(/_+/g, '_')
CollapseUnderscores(s) ==
  IF s = <<>> THEN <<>>
  ELSE IF Head(s) = "_" /\ Len(s) > 1 /\ s[2] = "_" THEN CollapseUnderscores(Tail(s))
  ELSE <<Head(s)>> \o CollapseUnderscores(Tail(s))

RECURSIVE StripLeading(_, _)
StripLeading(s, c) == IF s # <<>> /\ Head(s) = c THEN StripLeading(Tail(s), c) ELSE s
RECURSIVE StripTrailing(_, _)
StripTrailing(s, c) ==
  IF s # <<>> /\ s[Len(s)] = c THEN StripTrailing(SubSeq(s, 1, Len(s) - 1), c) ELSE s

\* the chain of replacements applied to one column name
NormalizeName(col) ==
  LET a == ToLowerCase(Trim(col))
      b == ReplaceSpaceRuns(a, <<"_">>)
      c == FilterSeq(b, {i \in DOMAIN b : IsLower(b[i]) \/ IsDigit(b[i]) \/ b[i] = "_"})
      d == StripTrailing(StripLeading(c, "_"), "_")
  IN CollapseUnderscores(d)

normalizeColumnNames(columns) ==
  LET normalizedColumns == [i \in DOMAIN columns |-> NormalizeName(columns[i])]
      changesCount == Cardinality({i \in DOMAIN columns : normalizedColumns[i] # columns[i]})
  IN [ columns |-> normalizedColumns,
       mapping |-> [c \in Range(columns) |-> NormalizeName(c)],
       log |-> Log("Normalize Column Names", NoColumn, changesCount, "cleaning") ]

\* bounds a whole threshold of interquartile ranges off the median instead
\* of off the quartiles
MedianFenceBounds(stats, method, threshold) ==
  IF method = "iqr" /\ stats.q1 # Undef /\ stats.q3 # Undef
  THEN LET iqr == stats.q3.n - stats.q1.n
       IN [ok |-> TRUE, lower |-> stats.median.n - RoundDiv(threshold * iqr, Unit),
           upper |-> stats.median.n + RoundDiv(threshold * iqr, Unit)]
  ELSE [ok |-> FALSE, lower |-> 0, upper |-> 0]

\* the bounds of one numeric column, or none (the column is skipped)
OutlierBounds(stats, method, threshold) ==
  IF method = "iqr" /\ stats.q1 # Undef /\ stats.q3 # Undef
  THEN LET iqr == stats.q3.n - stats.q1.n
       IN [ok |-> TRUE, lower |-> stats.q1.n - RoundDiv(threshold * iqr, Unit),
           upper |-> stats.q3.n + RoundDiv(threshold * iqr, Unit)]
  ELSE IF method = "zscore" /\ stats.mean # Undef /\ stats.stdDev # Undef
  THEN [ok |-> TRUE, lower |-> stats.mean.n - RoundDiv(threshold * stats.stdDev.n, Unit),
        upper |-> stats.mean.n + RoundDiv(threshold * stats.stdDev.n, Unit)]
  ELSE IF method = "percentile" /\ stats.min # Undef /\ stats.max # Undef
  THEN LET range == stats.max.n - stats.min.n
       IN [ok |-> TRUE, lower |-> stats.min.n + RoundDiv(threshold * range, 100 * Unit),
           upper |-> stats.max.n - RoundDiv(threshold * range, 100 * Unit)]
  ELSE [ok |-> FALSE, lower |-> 0, upper |-> 0]

\* value < lowerBound, value > upperBound: false on NaN
Below(v, b) == v.t = "num" /\ v.n < b.lower
Above(v, b) == v.t = "num" /\ v.n > b.upper

flagColumnName(col) == col \o <<"_","i","s","_","o","u","t","l","i","e","r">>

OutlierOperation(treatment) ==
  CASE treatment = "remove" -> "Outlier Removal"
    [] treatment = "cap" -> "Outlier Capping"
    [] treatment = "flag" -> "Outlier Flagging"
    [] OTHER -> "Outlier Replacement"

\* one column of removeOutliers, applied to the rows produced so far
OutlierColumn(data, col, stats, b, treatment) ==
  CASE treatment = "remove" ->
         LET kept == FilterSeq(data, {i \in DOMAIN data :
                        ~IsNumber(Cell(data[i], col))
                        \/ (Cell(data[i], col).t = "num" /\ ~Below(Cell(data[i], col), b)
                                                      /\ ~Above(Cell(data[i], col), b))})
         IN [data |-> kept, count |-> Len(data) - Len(kept)]
    [] treatment = "cap" ->
         [ data |-> [i \in DOMAIN data |->
                       IF Below(Cell(data[i], col), b) THEN With(data[i], col, Num(b.lower))
                       ELSE IF Above(Cell(data[i], col), b) THEN With(data[i], col, Num(b.upper))
                       ELSE data[i]],
           count |-> Cardinality({i \in DOMAIN data :
                        Below(Cell(data[i], col), b) \/ Above(Cell(data[i], col), b)}) ]
    [] treatment = "replace" ->
         LET replaceValue == IF ~IsNullish(stats.median) THEN stats.median
                             ELSE IF ~IsNullish(stats.mean) THEN stats.mean ELSE Whole(0)
         IN [ data |-> [i \in DOMAIN data |->
                          IF Below(Cell(data[i], col), b) \/ Above(Cell(data[i], col), b)
                          THEN With(data[i], col, replaceValue) ELSE data[i]],
              count |-> Cardinality({i \in DOMAIN data :
                           Below(Cell(data[i], col), b) \/ Above(Cell(data[i], col), b)}) ]
    [] treatment = "flag" ->
         [ data |-> [i \in DOMAIN data |->
                       With(data[i], flagColumnName(col),
                            Bool(Below(Cell(data[i], col), b) \/ Above(Cell(data[i], col), b)))],
           count |-> Cardinality({i \in DOMAIN data :
                        Below(Cell(data[i], col), b) \/ Above(Cell(data[i], col), b)}) ]

RECURSIVE OutlierScan(_, _, _, _, _, _, _)
\* columns.forEach of removeOutliers
OutlierScan(data, columns, columnStats, method, treatment, threshold, logs) ==
  IF columns = <<>> THEN [data |-> data, logs |-> logs]
  ELSE LET col == Head(columns)
           has == HasStats(columnStats, col) /\ FindStats(columnStats, col).type = "number"
           stats == FindStats(columnStats, col)
           b == OutlierBounds(stats, method, threshold)
           res == OutlierColumn(data, col, stats, b, treatment)
       IN IF ~has \/ ~b.ok
          THEN OutlierScan(data, Tail(columns), columnStats, method, treatment, threshold, logs)
          ELSE OutlierScan(res.data, Tail(columns), columnStats, method, treatment, threshold,
                           IF res.count > 0
                           THEN Append(logs, Log(OutlierOperation(treatment), col, res.count, "cleaning"))
                           ELSE logs)

removeOutliers(data, columns, columnStats, method, treatment, threshold) ==
  OutlierScan(data, columns, columnStats, method, treatment, threshold, <<>>)

\* data.map(row => { const newRow = {}; remaining.forEach(col => newRow[col] = row[col]); ... })
Project(data, remainingColumns) ==
  [i \in DOMAIN data |->
     Fresh(PutAll(<<>>, remainingColumns, [c \in Range(remainingColumns) |-> Cell(data[i], c)]))]

\* columnStats.filter(...).map(s => s.name), the filter given by the indices kept
StatsNames(columnStats, keep) ==
  LET k == FilterSeq(columnStats, keep)
  IN [i \in DOMAIN k |-> k[i].name]

\* threshold is a percentage in units of 1/Unit
dropHighMissingColumns(data, columns, columnStats, threshold) ==
  LET columnsToDrop == StatsNames(columnStats,
                                  {i \in DOMAIN columnStats : columnStats[i].missingPercentage > threshold})
      remainingColumns == FilterSeq(columns, {i \in DOMAIN columns : ~Contains(columnsToDrop, columns[i])})
  IN IF Len(columnsToDrop) = 0 THEN [data |-> data, columns |-> columns, logs |-> <<>>]
     ELSE [ data |-> Project(data, remainingColumns),
            columns |-> remainingColumns,
            logs |-> <<Log("Drop High-Missing Columns", NoColumn, Len(data), "cleaning")>> ]

\* the analyzer's statistics carry no variance field, so stats.variance is undefined
StatsVariance(st) == IF "variance" \in DOMAIN st THEN st.variance ELSE Undef

\* the filter of removeLowVarianceFeatures on one statistics entry
LowVariance(st, threshold) ==
  IF st.type = "number" /\ StatsVariance(st) # Undef
  THEN StatsVariance(st).n < threshold
  ELSE st.uniqueCount <= 1

removeLowVarianceFeatures(data, columns, columnStats, threshold) ==
  LET columnsToRemove == StatsNames(columnStats,
                                    {i \in DOMAIN columnStats : LowVariance(columnStats[i], threshold)})
      remainingColumns == FilterSeq(columns, {i \in DOMAIN columns : ~Contains(columnsToRemove, columns[i])})
  IN IF Len(columnsToRemove) = 0 THEN [data |-> data, columns |-> columns, logs |-> <<>>]
     ELSE [ data |-> Project(data, remainingColumns),
            columns |-> remainingColumns,
            logs |-> <<Log("Remove Low-Variance Features", NoColumn, Len(data), "feature")>> ]

\* a value cleanNaNValues turns into null
IsNaNLike(v) ==
  \/ v.t = "nan"
  \/ v.t = "undef"
  \/ (IsString(v) /\ ToLowerCase(v.s) \in {<<"n","a","n">>, <<"u","n","d","e","f","i","n","e","d">>})

cleanNaNValues(data, columns) ==
  LET bad(row) == {i \in DOMAIN columns : IsNaNLike(Cell(row, columns[i]))}
      nansCleaned == SeqSum([r \in DOMAIN data |-> Cardinality(bad(data[r]))])
  IN [ data |-> [r \in DOMAIN data |->
                   Fresh(PutAll(data[r].obj, FilterSeq(columns, bad(data[r])),
                                [c \in Range(columns) |-> Null]))],
       logs |-> IF nansCleaned > 0
                THEN <<Log("Clean NaN Values", NoColumn, nansCleaned, "cleaning")>>
                ELSE <<>> ]

\* threshold is a fraction in units of 1/Unit
removeAllNullColumns(data, threshold) ==
  IF Len(data) = 0 THEN [data |-> data, columns |-> <<>>, logs |-> <<>>]
  ELSE LET allColumns == Keys(data[1].obj)
           nullCount(col) == Cardinality({i \in DOMAIN data : IsMissing(Cell(data[i], col))})
           remove(col) == nullCount(col) * Unit >= threshold * Len(data)
           columnsToKeep == FilterSeq(allColumns, {i \in DOMAIN allColumns : ~remove(allColumns[i])})
       IN IF Len(columnsToKeep) = Len(allColumns)
          THEN [data |-> data, columns |-> allColumns, logs |-> <<>>]
          ELSE [ data |-> Project(data, columnsToKeep),
                 columns |-> columnsToKeep,
                 logs |-> <<Log("Remove All-Null Columns", NoColumn, Len(data), "cleaning")>> ]

\* -------------------------------------------------- feature engineering
\* `${a}_${b}` pieces
Us == <<"_">>
SignedStr(n) == (IF n < 0 THEN <<"-">> ELSE <<>>) \o DecStr(Abs(n))

\* new Date(value) for a string of the form dddd-dd-dd (read as UTC) or a
\* number (milliseconds since the epoch, here within the first day); other
\* strings are taken as unparsable.  Fields as seen in UTC.
DigitVal(c) == IndexOf(DigitChars, c) - 1
IsIsoDate(s) == Len(s) = 10 /\ DateAt(s, 1, "-", <<4, 2, 2>>)
MonthOffsets == <<0, 3, 2, 5, 0, 3, 5, 1, 4, 6, 2, 4>>
ParseDate(v) ==
  IF v.t = "num" /\ v.n >= 0 /\ v.n \div Unit < 86400000
  THEN [ok |-> TRUE, year |-> 1970, month |-> 1, day |-> 1, weekday |-> 4,
        hour |-> (v.n \div Unit) \div 3600000]
  ELSE IF IsString(v) /\ IsIsoDate(v.s)
  THEN LET y == DigitVal(v.s[1]) * 1000 + DigitVal(v.s[2]) * 100 + DigitVal(v.s[3]) * 10 + DigitVal(v.s[4])
           m == DigitVal(v.s[6]) * 10 + DigitVal(v.s[7])
           d == DigitVal(v.s[9]) * 10 + DigitVal(v.s[10])
           yy == IF m < 3 THEN y - 1 ELSE y
       IN IF m \in 1..12 /\ d \in 1..31
          THEN [ok |-> TRUE, year |-> y, month |-> m, day |-> d,
                weekday |-> (yy + yy \div 4 - yy \div 100 + yy \div 400 + MonthOffsets[m] + d) % 7,
                hour |-> 0]
          ELSE [ok |-> FALSE, year |-> 0, month |-> 0, day |-> 0, weekday |-> 0, hour |-> 0]
  ELSE [ok |-> FALSE, year |-> 0, month |-> 0, day |-> 0, weekday |-> 0, hour |-> 0]

\* the features the orchestrator asks for
TimeFeatureNames == << <<"h","o","u","r">>, <<"d","a","y">>, <<"w","e","e","k","d","a","y">>,
                       <<"m","o","n","t","h">>, <<"y","e","a","r">> >>

extractTimeFeatures(data, column, features) ==
  LET colName(f) == column \o Us \o f
      names == [i \in DOMAIN features |-> colName(features[i])]
      value(date, f) ==
        IF ~date.ok THEN Null
        ELSE CASE f = <<"h","o","u","r">> -> Whole(date.hour)
               [] f = <<"d","a","y">> -> Whole(date.day)
               [] f = <<"w","e","e","k","d","a","y">> -> Whole(date.weekday)
               [] f = <<"m","o","n","t","h">> -> Whole(date.month)
               [] f = <<"y","e","a","r">> -> Whole(date.year)
               [] OTHER -> Null
  IN [ data |-> [r \in DOMAIN data |->
                   LET date == ParseDate(Cell(data[r], column))
                   IN Fresh(PutAll(data[r].obj, names,
                                   [nm \in Range(names) |->
                                      value(date, features[IndexOf(names, nm)])]))],
       log |-> Log("Time Feature Extraction", column, Len(data), "feature") ]

\* the numbers of data[j][column] for j in the window ending at row i
WindowValues(data, column, i, windowSize) ==
  Numbers(SubSeq(Column(data, column), Max2(1, i - windowSize + 1), i))

\* mean and std of a non-empty window, rounded to the fixed-point unit
RollingValue(func, w) ==
  LET n == Len(w)
      sum == SeqSum(w)
  IN IF func = <<"m","e","a","n">> THEN RoundDiv(sum, n) ELSE StdOf(w, RoundDiv(sum, n))

RollingFunctions == << <<"m","e","a","n">>, <<"s","t","d">> >>

createRollingFeatures(data, column, windowSizes, functions) ==
  LET colName(w, f) == column \o <<"_","r","o","l","l","i","n","g","_">> \o f \o Us \o DecStr(w)
      pairs == Flatten([w \in DOMAIN windowSizes |->
                          [f \in DOMAIN functions |-> <<windowSizes[w], functions[f]>>]])
      names == [i \in DOMAIN pairs |-> colName(pairs[i][1], pairs[i][2])]
      value(i, pr) == LET w == WindowValues(data, column, i, pr[1])
                      IN IF Len(w) = 0 THEN Null ELSE Num(RollingValue(pr[2], w))
  IN [ data |-> [i \in DOMAIN data |->
                   Fresh(PutAll(data[i].obj, names,
                                [nm \in Range(names) |-> value(i, pairs[IndexOf(names, nm)])]))],
       log |-> Log("Rolling Features", column, Len(data), "feature") ]

createLagFeatures(data, column, lags) ==
  LET names == [l \in DOMAIN lags |-> column \o <<"_","l","a","g","_">> \o DecStr(lags[l])]
  IN [ data |-> [i \in DOMAIN data |->
                   Fresh(PutAll(data[i].obj, names,
                                [nm \in Range(names) |->
                                   LET lag == lags[IndexOf(names, nm)]
                                   IN IF i - 1 >= lag THEN Cell(data[i - lag], column) ELSE Null]))],
       log |-> Log("Lag Features", column, Len(data), "feature") ]

\* products of numbers; NaN is contagious
MulValue(a, b) == IF a.t = "nan" \/ b.t = "nan" THEN NaN ELSE Num(RoundDiv(a.n * b.n, Unit))
RECURSIVE PowValue(_, _)
PowValue(a, d) == IF d = 1 THEN a ELSE MulValue(PowValue(a, d - 1), a)

RECURSIVE PolyPowers(_, _, _, _)
\* columns.forEach of the single-column powers, on one row
PolyPowers(obj, row, columns, degree) ==
  IF columns = <<>> THEN obj
  ELSE LET col == Head(columns)
           value == Cell(row, col)
           names == [d \in 1..(degree - 1) |-> col \o <<"_","p","o","w">> \o DecStr(d + 1)]
       IN PolyPowers(IF IsNumber(value)
                     THEN PutAll(obj, names,
                                 [nm \in Range(names) |-> PowValue(value, IndexOf(names, nm) + 1)])
                     ELSE obj,
                     row, Tail(columns), degree)

RECURSIVE PolyInteractions(_, _, _, _)
\* the pairs (i, j), i < j, in loop order
PolyInteractions(obj, row, columns, pairs) ==
  IF pairs = <<>> THEN obj
  ELSE LET v1 == Cell(row, columns[Head(pairs)[1]])
           v2 == Cell(row, columns[Head(pairs)[2]])
           colName == columns[Head(pairs)[1]] \o <<"_","x","_">> \o columns[Head(pairs)[2]]
       IN PolyInteractions(IF IsNumber(v1) /\ IsNumber(v2) THEN Put(obj, colName, MulValue(v1, v2))
                           ELSE obj,
                           row, columns, Tail(pairs))

IndexPairs(n) ==
  Flatten([i \in 1..n |-> [k \in 1..(n - i) |-> <<i, i + k>>]])

createPolynomialFeatures(data, columns, degree) ==
  [ data |-> [r \in DOMAIN data |->
                Fresh(PolyInteractions(PolyPowers(data[r].obj, data[r], columns, degree),
                                       data[r], columns, IndexPairs(Len(columns))))],
    log |-> Log("Polynomial Features", NoColumn, Len(data), "feature") ]

\* the bin index of a number: the last edge it exceeds, counted from 1
BinIndex(value, sorted, method, numBins) ==
  LET n == Len(sorted)
      exceeds(i) ==
        IF n = 0 \/ value.t = "nan" THEN FALSE
        ELSE IF method = "quantile"
        THEN LET idx == (i * n) \div numBins IN value.n > sorted[idx + 1]
        ELSE \* value > min + i * (max - min) / numBins
             numBins * (value.n - sorted[1]) > i * (sorted[n] - sorted[1])
      hit == {i \in 1..(numBins - 1) : exceeds(i)}
  IN IF hit = {} THEN 0 ELSE CHOOSE i \in hit : \A j \in hit : j <= i

binNumericFeature(data, column, method, numBins) ==
  LET sorted == SortNums(Numbers(Column(data, column)))
      binColumn == column \o <<"_","b","i","n","n","e","d">>
  IN [ data |-> [r \in DOMAIN data |->
                   IF ~IsNumber(Cell(data[r], column)) THEN With(data[r], binColumn, Null)
                   ELSE With(data[r], binColumn,
                             Whole(BinIndex(Cell(data[r], column), sorted, method, numBins)))],
       log |-> Log("Feature Binning", column, Len(data), "feature") ]

\* ------------------------------------------------------------ geo features
\* gridSize in units of 1/Unit
gridEncode(data, latColumn, lonColumn, gridSize) ==
  [ data |-> [r \in DOMAIN data |->
                LET lat == Cell(data[r], latColumn)
                    lon == Cell(data[r], lonColumn)
                    put(a, b, c) == Fresh(Put(Put(Put(data[r].obj, <<"g","r","i","d","_","l","a","t">>, a),
                                                  <<"g","r","i","d","_","l","o","n">>, b),
                                              <<"g","r","i","d","_","i","d">>, c))
                IN IF ~IsNumber(lat) \/ ~IsNumber(lon) THEN put(Null, Null, Null)
                   ELSE IF lat.t = "nan" \/ lon.t = "nan"
                   THEN put(NaN, NaN, Str(<<"N","a","N","_","N","a","N">>))
                   ELSE LET gridLat == FloorDiv(lat.n, gridSize)
                            gridLon == FloorDiv(lon.n, gridSize)
                        IN put(Whole(gridLat), Whole(gridLon),
                               Str(SignedStr(gridLat) \o Us \o SignedStr(gridLon)))],
    log |-> Log("Grid Encoding", NoColumn, Len(data), "feature") ]

\* the rows with numeric latitude and longitude
ValidPoints(data, latColumn, lonColumn) ==
  {i \in DOMAIN data : IsNumber(Cell(data[i], latColumn)) /\ IsNumber(Cell(data[i], lonColumn))}

\* assignments is the outcome of the seeded k-means over the valid points (a
\* function from their row indices to cluster indices); it is an input here
geoCluster(data, latColumn, lonColumn, numClusters, assignments) ==
  LET valid == ValidPoints(data, latColumn, lonColumn)
  IN IF Cardinality(valid) < numClusters
     THEN [data |-> data, log |-> Log("Geo Clustering", NoColumn, 0, "feature")]
     ELSE [ data |-> [r \in DOMAIN data |->
                        With(data[r], <<"g","e","o","_","c","l","u","s","t","e","r">>,
                             IF r \in valid THEN Whole(assignments[r]) ELSE Null)],
            log |-> Log("Geo Clustering", NoColumn, Cardinality(valid), "feature") ]

\* hexSize = 0.01 * 2^(10 - resolution), in units of 1/Unit
RECURSIVE Pow2(_)
Pow2(k) == IF k = 0 THEN 1 ELSE 2 * Pow2(k - 1)
hexEncode(data, latColumn, lonColumn, resolution) ==
  LET hexSize == (Unit \div 100) * Pow2(10 - resolution)
  IN [ data |-> [r \in DOMAIN data |->
                   LET lat == Cell(data[r], latColumn)
                       lon == Cell(data[r], lonColumn)
                       put(a, b, c) == Fresh(Put(Put(Put(data[r].obj, <<"h","e","x","_","i","d">>, a),
                                                     <<"h","e","x","_","l","a","t">>, b),
                                                 <<"h","e","x","_","l","o","n">>, c))
                   IN IF ~IsNumber(lat) \/ ~IsNumber(lon) THEN put(Null, Null, Null)
                      ELSE IF lat.t = "nan" \/ lon.t = "nan"
                      THEN put(Str(<<"h">> \o DecStr(resolution) \o <<"_","N","a","N","_","N","a","N">>), NaN, NaN)
                      ELSE LET hexLon == FloorDiv(2 * lon.n, 3 * hexSize)
                               odd == hexLon % 2 # 0
                               adjustedHexLat == FloorDiv(2 * lat.n + (IF odd THEN hexSize ELSE 0), 2 * hexSize)
                           IN put(Str(<<"h">> \o DecStr(resolution) \o Us \o SignedStr(adjustedHexLat)
                                        \o Us \o SignedStr(hexLon)),
                                  Whole(adjustedHexLat), Whole(hexLon))],
       log |-> Log("Hexagonal Encoding", NoColumn, Len(data), "feature") ]

\* ---------------------------------------------------------------- encoders
RECURSIVE PutSeq(_, _, _)
\* o[ks[i]] = vs[i] for each i in order
PutSeq(o, ks, vs) ==
  IF ks = <<>> THEN o ELSE PutSeq(Put(o, Head(ks), Head(vs)), Tail(ks), Tail(vs))

\* [...new Set(data.map(row => row[column]).filter(v => v !== null && v !== undefined))]
\*   .map(v => String(v)).sort()
Categories(data, column) ==
  LET vals == Column(data, column)
      uniqueValues == Distinct(FilterSeq(vals, {i \in DOMAIN vals : ~IsNullish(vals[i])}))
  IN SortStrings([i \in DOMAIN uniqueValues |-> StringOf(uniqueValues[i])])

\* String(row[column] ?? '')
StringOrEmpty(v) == IF IsNullish(v) THEN <<>> ELSE StringOf(v)

oneHotEncode(data, column, dropFirst) ==
  LET categories == Categories(data, column)
      valuesToEncode == IF dropFirst /\ categories # <<>> THEN Tail(categories) ELSE categories
      newColumns == [i \in DOMAIN valuesToEncode |-> column \o Us \o valuesToEncode[i]]
  IN [ data |-> [r \in DOMAIN data |->
                   LET value == StringOrEmpty(Cell(data[r], column))
                   IN Fresh(Del(PutSeq(data[r].obj, newColumns,
                                       [i \in DOMAIN valuesToEncode |->
                                          IF value = valuesToEncode[i] THEN Whole(1) ELSE Whole(0)]),
                                column))],
       newColumns |-> newColumns,
       log |-> Log("One-Hot Encoding", column, Len(data), "encoding") ]

\* mapping[key] after categories.forEach((cat, i) => mapping[cat] = i)
LastIndexOf(s, x) == CHOOSE i \in DOMAIN s : s[i] = x /\ \A j \in (i + 1)..Len(s) : s[j] # x

labelEncode(data, column) ==
  LET categories == Categories(data, column)
  IN [ data |-> [r \in DOMAIN data |->
                   LET value == Cell(data[r], column)
                   IN IF IsNullish(value) THEN With(data[r], column, Null)
                      ELSE With(data[r], column, Whole(LastIndexOf(categories, StringOf(value)) - 1))],
       log |-> Log("Label Encoding", column, Len(data), "encoding") ]

frequencyEncode(data, column) ==
  LET vals == Column(data, column)
      keys == [i \in DOMAIN vals |-> IF IsNullish(vals[i]) THEN Undef ELSE Str(StringOf(vals[i]))]
      total == Len(data)
  IN [ data |-> [r \in DOMAIN data |->
                   IF IsNullish(vals[r]) THEN With(data[r], column, Null)
                   ELSE With(data[r], column, Num(RoundDiv(Count(keys, keys[r]) * Unit, total)))],
       log |-> Log("Frequency Encoding", column, Len(data), "encoding") ]

targetEncode(data, column, targetColumn, smoothing) ==
  LET vals == Column(data, column)
      targets == Column(data, targetColumn)
      tnum(i) == IF targets[i].t = "num" THEN targets[i].n ELSE 0
      total == SeqSum([i \in DOMAIN data |-> tnum(i)])
      globalMean == IF Len(data) = 0 THEN NaN ELSE Num(RoundDiv(total, Len(data)))
      member(r) == {i \in DOMAIN data : ~IsNullish(vals[i]) /\ IsNumber(targets[i])
                                        /\ StringOf(vals[i]) = StringOf(vals[r])}
      sum(r) == SeqSum([i \in DOMAIN data |-> IF i \in member(r) THEN tnum(i) ELSE 0])
      encoded(r) == LET count == Cardinality(member(r))
                    IN IF count = 0 THEN globalMean
                       ELSE Num(RoundDiv(sum(r) * Len(data) + smoothing * total,
                                         (count + smoothing) * Len(data)))
  IN [ data |-> [r \in DOMAIN data |->
                   IF IsNullish(vals[r]) THEN With(data[r], column, globalMean)
                   ELSE With(data[r], column, encoded(r))],
       log |-> Log("Target Encoding", column, Len(data), "encoding") ]

\* Math.ceil(Math.log2(n + 1))
RECURSIVE BitsFor(_, _)
BitsFor(n, b) == IF Pow2(b) >= n + 1 THEN b ELSE BitsFor(n, b + 1)

binaryEncode(data, column) ==
  LET categories == Categories(data, column)
      numBits == BitsFor(Len(categories), 0)
      newColumns == [i \in 1..numBits |-> column \o <<"_","b","i","t">> \o DecStr(i - 1)]
      \* bit i (from the left) of the code of a category
      bit(code, i) == (code \div Pow2(numBits - i)) % 2
  IN [ data |-> [r \in DOMAIN data |->
                   LET value == Cell(data[r], column)
                       code == IF IsNullish(value) THEN 0 ELSE LastIndexOf(categories, StringOf(value))
                   IN Fresh(Del(PutSeq(data[r].obj, newColumns,
                                       [i \in 1..numBits |-> Whole(bit(code, i))]),
                                column))],
       newColumns |-> newColumns,
       log |-> Log("Binary Encoding", column, Len(data), "encoding") ]

\* ----------------------------------------------------- scaling, transforms
\* the keys of params: the columns to scale that hold a number, each once
ParamColumns(data, columns) ==
  LET cs == Distinct(columns)
  IN FilterSeq(cs, {i \in DOMAIN cs : \E r \in DOMAIN data : IsNumber(Cell(data[r], cs[i]))})

\* a column holding NaN makes its parameters, and every scaled number, NaN
HasNaN(data, col) == \E r \in DOMAIN data : Cell(data[r], col).t = "nan"

\* params[col] = { mean, std: std || 1 } of the standard scaler
StandardParams(data, col) ==
  LET nums == Numbers(Column(data, col))
      mean == IF nums = <<>> THEN 0 ELSE RoundDiv(SeqSum(nums), Len(nums))
      std == IF nums = <<>> THEN 0 ELSE StdOf(nums, mean)
  IN [ mean |-> mean,
       std |-> IF std = 0 THEN Unit ELSE std,
       nan |-> HasNaN(data, col) ]

\* params[col] = { min, max } of the min-max scaler
MinMaxParams(data, col) ==
  LET sorted == SortNums(Numbers(Column(data, col)))
  IN [ min |-> IF sorted = <<>> THEN 0 ELSE sorted[1],
       max |-> IF sorted = <<>> THEN 0 ELSE sorted[Len(sorted)],
       nan |-> HasNaN(data, col) ]

\* (value - mean) / std with the parameters of the column
StandardScaled(data, col, value) ==
  LET mean == StandardParams(data, col).mean
      std == StandardParams(data, col).std
  IN IF HasNaN(data, col) \/ value.t = "nan" THEN NaN
     ELSE Num(RoundDiv((value.n - mean) * Unit, std))

\* (value - min) / (max - min || 1), to the range [0, 1]
MinMaxScaled(data, col, value) ==
  LET min == MinMaxParams(data, col).min
      max == MinMaxParams(data, col).max
      range == IF max - min = 0 THEN Unit ELSE max - min
  IN IF HasNaN(data, col) \/ value.t = "nan" THEN NaN
     ELSE Num(RoundDiv((value.n - min) * Unit, range))

\* (value - median) / iqr with the parameters of the column
RobustScaled(data, col, value) ==
  LET sorted == SortNums(Numbers(Column(data, col)))
      n == Len(sorted)
      mid == n \div 2
      median2 == IF n % 2 # 0 THEN 2 * sorted[mid + 1] ELSE sorted[mid] + sorted[mid + 1]
      spread == sorted[((n * 75) \div 100) + 1] - sorted[((n * 25) \div 100) + 1]
      iqr == IF spread = 0 THEN Unit ELSE spread
  IN IF HasNaN(data, col) \/ value.t = "nan" THEN NaN
     ELSE Num(RoundDiv((2 * value.n - median2) * Unit, 2 * iqr))

ScaledValue(method, data, col, value) ==
  CASE method = "standard" -> StandardScaled(data, col, value)
    [] method = "minmax" -> MinMaxScaled(data, col, value)
    [] method = "robust" -> RobustScaled(data, col, value)

\* Object.entries(params).forEach: newRow[col] = the scaled value for a
\* number, null for a missing cell, untouched otherwise
ScaleRow(data, row, cols, method) ==
  LET touched == FilterSeq(cols, {i \in DOMAIN cols :
                                   IsNumber(Cell(row, cols[i])) \/ IsMissing(Cell(row, cols[i]))})
  IN PutSeq(row.obj, touched,
            [i \in DOMAIN touched |->
               LET value == Cell(row, touched[i])
               IN IF IsNumber(value) THEN ScaledValue(method, data, touched[i], value) ELSE Null])

ScaleTable(data, cols, method) ==
  [r \in DOMAIN data |-> Fresh(ScaleRow(data, data[r], cols, method))]

\* params[col] = { median, iqr } of the robust scaler
RobustParams(data, col) ==
  LET sorted == SortNums(Numbers(Column(data, col)))
      n == Len(sorted)
      mid == n \div 2
      spread == IF n = 0 THEN 0
                ELSE sorted[((n * 75) \div 100) + 1] - sorted[((n * 25) \div 100) + 1]
  IN [ median |-> IF n = 0 THEN 0
                  ELSE IF n % 2 # 0 THEN sorted[mid + 1]
                  ELSE RoundDiv(sorted[mid] + sorted[mid + 1], 2),
       iqr |-> IF spread = 0 THEN Unit ELSE spread,
       nan |-> HasNaN(data, col) ]

\* scaler: { method, columns: Object.keys(params), params }
scalerOf(method, data, columns) ==
  LET cols == ParamColumns(data, columns)
  IN [ method |-> method,
       columns |-> cols,
       params |-> [col \in Range(cols) |->
                     CASE method = "standard" -> StandardParams(data, col)
                       [] method = "minmax" -> MinMaxParams(data, col)
                       [] method = "robust" -> RobustParams(data, col)] ]

standardScale(data, columns) ==
  [ data |-> ScaleTable(data, ParamColumns(data, columns), "standard"),
    scaler |-> scalerOf("standard", data, columns),
    log |-> Log("Standard Scaling", NoColumn, Len(data), "transformation") ]

\* the default of the parameter featureRange: [0, 1]
defaultFeatureRange == <<0, Unit>>

\* scaled * (rangeMax - rangeMin) + rangeMin
ToFeatureRange(scaled, featureRange) ==
  IF scaled.t = "nan" THEN NaN
  ELSE Num(RoundDiv(scaled.n * (featureRange[2] - featureRange[1]), Unit) + featureRange[1])

\* the numbers of a row scaled to [0, 1], moved to the target range
RangeRow(obj, numeric, featureRange) ==
  PutSeq(obj, numeric,
         [i \in DOMAIN numeric |-> ToFeatureRange(Get(obj, numeric[i]), featureRange)])

\* the rows of minMaxScale for the keys cols of params
MinMaxRows(data, cols, featureRange) ==
  [r \in DOMAIN data |->
     Fresh(RangeRow(ScaleRow(data, data[r], cols, "minmax"),
                    FilterSeq(cols, {i \in DOMAIN cols : IsNumber(Cell(data[r], cols[i]))}),
                    featureRange))]

minMaxScale(data, columns, featureRange) ==
  [ data |-> MinMaxRows(data, ParamColumns(data, columns), featureRange),
    scaler |-> scalerOf("minmax", data, columns),
    log |-> Log("Min-Max Scaling", NoColumn, Len(data), "transformation") ]

robustScale(data, columns) ==
  [ data |-> ScaleTable(data, ParamColumns(data, columns), "robust"),
    scaler |-> scalerOf("robust", data, columns),
    log |-> Log("Robust Scaling", NoColumn, Len(data), "transformation") ]

\* Math.log on fixed-point numbers, computed in units of 1/10^4: halve or
\* double into [1, 2), then 2 * artanh((x - 1) / (x + 1)) by its series
RECURSIVE LnFine(_)
LnFine(x) ==
  IF x >= 20000 THEN 6931 + LnFine(x \div 2)
  ELSE IF x < 10000 THEN LnFine(2 * x) - 6931
  ELSE LET z == ((x - 10000) * 10000) \div (x + 10000)
           z2 == (z * z) \div 10000
           z3 == (z * z2) \div 10000
           z5 == (z3 * z2) \div 10000
           z7 == (z5 * z2) \div 10000
       IN 2 * (z + z3 \div 3 + z5 \div 5 + z7 \div 7)
\* Math.log(n / Unit) in units of 1/Unit, for n > 0
LnFx(n) == RoundDiv(LnFine(n * (10000 \div Unit)) * Unit, 10000)

\* the condition under which a number is transformed
Eligible(transform, offset, v) ==
  v.t = "num" /\ (IF transform = "log" THEN v.n + offset > 0 ELSE v.n >= 0)
\* Math.log(value + offset), Math.sqrt(value)
Transformed(transform, offset, v) ==
  IF transform = "log" THEN Num(LnFx(v.n + offset)) ELSE Num(SqrtFx(v.n))

\* columns.forEach: newRow[col] = the transformed value for an eligible
\* number, null for a missing cell, untouched otherwise
TransformRow(row, cols, transform, offset) ==
  LET touched == FilterSeq(cols, {i \in DOMAIN cols :
                                   Eligible(transform, offset, Cell(row, cols[i]))
                                   \/ IsMissing(Cell(row, cols[i]))})
  IN PutSeq(row.obj, touched,
            [i \in DOMAIN touched |->
               LET value == Cell(row, touched[i])
               IN IF Eligible(transform, offset, value) THEN Transformed(transform, offset, value)
                  ELSE Null])

\* the counter `transformed`
TransformCount(data, cols, transform, offset) ==
  SeqSum([r \in DOMAIN data |->
            Cardinality({i \in DOMAIN cols : Eligible(transform, offset, Cell(data[r], cols[i]))})])

logTransform(data, columns, offset) ==
  [ data |-> [r \in DOMAIN data |-> Fresh(TransformRow(data[r], columns, "log", offset))],
    log |-> Log("Log Transform", NoColumn, TransformCount(data, columns, "log", offset), "transformation") ]

sqrtTransform(data, columns) ==
  [ data |-> [r \in DOMAIN data |-> Fresh(TransformRow(data[r], columns, "sqrt", 0))],
    log |-> Log("Square Root Transform", NoColumn, TransformCount(data, columns, "sqrt", 0), "transformation") ]

\* ---------------------------------------------------------- baseline model
\* extractFeatures(data, columns).length: the rows without NaN in a feature
FeatureRows(data, columns) ==
  Cardinality({r \in DOMAIN data : \A i \in DOMAIN columns : Cell(data[r], columns[i]).t # "nan"})

\* Number(v) is not NaN
NumberOk(v) ==
  \/ v.t \in {"num", "null", "bool"}
  \/ v.t = "str" /\ LET s == Trim(v.s)
                    IN s = <<>> \/ (\A i \in DOMAIN s : IsDigit(s[i]))

\* whether the trainer throws 'Insufficient data for training'
LinearThrows(data, featureColumns, targetColumn) ==
  \/ FeatureRows(data, featureColumns) = 0
  \/ \A r \in DOMAIN data : ~NumberOk(Cell(data[r], targetColumn))
LogisticThrows(data, featureColumns) == FeatureRows(data, featureColumns) = 0

\* the trained model is kept by its type; thrown tells that training threw
Model(type) == [thrown |-> FALSE, type |-> type]
Thrown == [thrown |-> TRUE, type |-> "none"]
NoModel == [thrown |-> FALSE, type |-> "none"]

trainLinearRegression(data, featureColumns, targetColumn) ==
  IF LinearThrows(data, featureColumns, targetColumn) THEN Thrown ELSE Model("linear")
trainLogisticRegression(data, featureColumns, targetColumn) ==
  IF LogisticThrows(data, featureColumns) THEN Thrown ELSE Model("logistic")
trainDecisionTree(data, featureColumns, targetColumn) == Model("tree")

autoTrainBaseline(data, featureColumns, targetColumn) ==
  LET all == Column(data, targetColumn)
      targets == FilterSeq(all, {i \in DOMAIN all : ~IsNullish(all[i])})
      uniqueTargets == Cardinality(Range(targets))
      linear == trainLinearRegression(data, featureColumns, targetColumn)
      model == IF uniqueTargets <= 10 \/ \A i \in DOMAIN targets : IsString(targets[i])
               THEN IF uniqueTargets = 2
                    THEN trainLogisticRegression(data, featureColumns, targetColumn)
                    ELSE trainDecisionTree(data, featureColumns, targetColumn)
               ELSE IF linear.thrown THEN trainDecisionTree(data, featureColumns, targetColumn)
               ELSE linear
  IN [ model |-> model,
       log |-> Log("Baseline Model Training", NoColumn, Len(data), "model") ]

\* ------------------------------------------------------------ uploaded files
\* a parsed row: every column of the header is a key (parseCSV, parseJSON)
UploadRow(cols, cells) == [i \in DOMAIN cols |-> [k |-> cols[i], v |-> cells[i]]]
\* the rows of an uploaded table are the objects 1..n of the session
Upload(cols, rows) == [i \in DOMAIN rows |-> [ref |-> i, obj |-> UploadRow(cols, rows[i])]]

\* the files a session can upload: a header and parsed cell values
Files ==
  << [ columns |-> << <<"A"," ","b">>, <<"x">> >>,
       rows |-> << << Str(<<"p"," "," ","q">>), Whole(1) >>,
                   << Str(<<"p"," ","q">>), Whole(1) >>,
                   << Null, Null >>,
                   << Str(<<"R">>), Whole(100) >> >> ],
     [ columns |-> << <<"t">>, <<"lat">>, <<"lon">> >>,
       rows |-> << << Str(<<"2","0","2","4","-","0","1","-","1","5">>), Num((125 * Unit) \div 10), Num((776 * Unit) \div 10) >>,
                   << Str(<<"2","0","2","4","-","0","2","-","2","0">>), Num((131 * Unit) \div 10), Num((775 * Unit) \div 10) >> >> ],
     [ columns |-> << <<"a">>, <<"b">> >>,
       rows |-> << << Whole(1), Null >>,
                   << Whole(2), Null >> >> ] >>

\* ------------------------------------------------------------ configuration
\* parameters the model leaves at their defaults
nearDuplicateTolerance == (95 * Unit) \div 100
missingThreshold == (5 * Unit) \div 10
highMissingThreshold == (5 * Unit) \div 10
lowVarianceThreshold == Unit \div 100
outlierThreshold == (15 * Unit) \div 10
rollingWindows == <<3, 7>>
lagPeriods == <<1, 2, 3>>
polynomialDegree == 2
binCount == 5
gridSize == Unit \div 10
numClusters == 5
hexResolution == 7
targetSmoothing == 1
logOffset == Unit

\* the configuration state of the MLPipeline component after construction
DefaultML ==
  [ trimWhitespace |-> TRUE, normalizeColumnNames |-> TRUE,
    standardizeCase |-> FALSE, caseType |-> "lower",
    removeDuplicates |-> TRUE, removeNearDuplicates |-> FALSE,
    removeHighMissing |-> FALSE,
    handleMissing |-> TRUE, missingStrategy |-> "remove",
    removeLowVariance |-> FALSE,
    outlierEnabled |-> FALSE, outlierMethod |-> "iqr", outlierTreatment |-> "cap",
    timeFeatures |-> FALSE, timeColumn |-> <<>>,
    rollingFeatures |-> FALSE, rollingColumn |-> <<>>,
    lagFeatures |-> FALSE, lagColumn |-> <<>>,
    polynomialFeatures |-> FALSE, polynomialColumns |-> <<>>,
    binning |-> FALSE, binColumn |-> <<>>, binMethod |-> "equal",
    geoEnabled |-> FALSE, geoMethod |-> "grid", latColumn |-> <<>>, lonColumn |-> <<>>,
    encodingEnabled |-> FALSE, encodingMethod |-> "onehot", encodingColumns |-> <<>>,
    scalingEnabled |-> FALSE, scalingMethod |-> "standard", scalingTransform |-> "none",
    scalingColumns |-> <<>>,
    modelEnabled |-> FALSE, autoSelect |-> TRUE, modelType |-> "auto",
    targetColumn |-> <<>> ]

\* every switch that is on by default turned off
AllOffML ==
  [DefaultML EXCEPT !.trimWhitespace = FALSE, !.normalizeColumnNames = FALSE,
                    !.removeDuplicates = FALSE, !.handleMissing = FALSE]

\* the column selections a user makes among the offered columns
ColumnLists(cols) ==
  {<<cols[i]>> : i \in DOMAIN cols} \cup {SubSeq(cols, 1, k) : k \in 2..Min2(MaxSelected, Len(cols))}

\* one edit of the panel: a switch flipped, or a stage turned on with its
\* method and columns chosen among the offered columns
EditsML(c, cols) ==
  LET names == Range(cols)
  IN {[c EXCEPT !.trimWhitespace = ~@], [c EXCEPT !.normalizeColumnNames = ~@],
      [c EXCEPT !.removeDuplicates = ~@], [c EXCEPT !.handleMissing = ~@],
      [c EXCEPT !.removeNearDuplicates = TRUE], [c EXCEPT !.removeHighMissing = TRUE],
      [c EXCEPT !.removeLowVariance = TRUE]}
     \cup {[c EXCEPT !.handleMissing = TRUE, !.missingStrategy = s] :
             s \in {"remove", "mean", "median", "mode", "forward", "backward", "constant"}}
     \cup {[c EXCEPT !.standardizeCase = TRUE, !.caseType = t] : t \in {"lower", "upper", "title"}}
     \cup {[c EXCEPT !.outlierEnabled = TRUE, !.outlierMethod = m, !.outlierTreatment = t] :
             m \in {"iqr", "zscore", "percentile"}, t \in {"cap", "remove", "replace", "flag"}}
     \cup {[c EXCEPT !.timeFeatures = TRUE, !.timeColumn = n] : n \in names}
     \cup {[c EXCEPT !.rollingFeatures = TRUE, !.rollingColumn = n] : n \in names}
     \cup {[c EXCEPT !.lagFeatures = TRUE, !.lagColumn = n] : n \in names}
     \cup {[c EXCEPT !.polynomialFeatures = TRUE, !.polynomialColumns = l] : l \in ColumnLists(cols)}
     \cup {[c EXCEPT !.binning = TRUE, !.binColumn = n, !.binMethod = m] :
             n \in names, m \in {"equal", "quantile"}}
     \cup {[c EXCEPT !.geoEnabled = TRUE, !.geoMethod = m, !.latColumn = p[1], !.lonColumn = p[2]] :
             m \in {"grid", "cluster", "hex"}, p \in {q \in names \X names : q[1] # q[2]}}
     \cup {[c EXCEPT !.encodingEnabled = TRUE, !.encodingMethod = m, !.encodingColumns = l] :
             m \in {"onehot", "label", "frequency", "target", "binary"}, l \in ColumnLists(cols)}
     \cup {[c EXCEPT !.encodingEnabled = TRUE, !.encodingMethod = "target", !.encodingColumns = l,
                     !.targetColumn = n] : l \in ColumnLists(cols), n \in names}
     \cup {[c EXCEPT !.scalingEnabled = TRUE, !.scalingMethod = m, !.scalingTransform = t,
                     !.scalingColumns = l] :
             m \in {"standard", "minmax", "robust"}, t \in {"none", "log", "sqrt"},
             l \in ColumnLists(cols)}
     \cup {[c EXCEPT !.modelEnabled = TRUE, !.autoSelect = a, !.modelType = m, !.targetColumn = n] :
             a \in BOOLEAN, m \in {"auto", "linear", "logistic", "tree"}, n \in names}

RECURSIVE EditedML(_, _, _)
\* the configurations at most k edits away from a set of configurations
EditedML(from, cols, k) ==
  IF k = 0 THEN from
  ELSE EditedML(from \cup UNION {EditsML(c, cols) : c \in from}, cols, k - 1)

\* the configuration state of the Index page after construction
DefaultBasic ==
  [ removeDuplicates |-> TRUE, handleMissing |-> TRUE, missingStrategy |-> "remove",
    removeEnabled |-> FALSE, trimWhitespace |-> TRUE,
    standardizeCase |-> FALSE, caseType |-> "lower",
    removeOutliers |-> FALSE, outlierMethod |-> "iqr", coercionEnabled |-> FALSE ]

AllOffBasic ==
  [DefaultBasic EXCEPT !.removeDuplicates = FALSE, !.handleMissing = FALSE, !.trimWhitespace = FALSE]

EditsBasic(c) ==
  {[c EXCEPT !.removeDuplicates = ~@], [c EXCEPT !.trimWhitespace = ~@],
   [c EXCEPT !.handleMissing = ~@], [c EXCEPT !.removeEnabled = TRUE]}
  \cup {[c EXCEPT !.handleMissing = TRUE, !.missingStrategy = s] :
          s \in {"remove", "mean", "median", "mode"}}
  \cup {[c EXCEPT !.standardizeCase = TRUE, !.caseType = t] : t \in {"lower", "upper", "title"}}
  \cup {[c EXCEPT !.removeOutliers = TRUE, !.outlierMethod = m] : m \in {"iqr", "zscore"}}

RECURSIVE EditedBasic(_, _)
EditedBasic(from, k) ==
  IF k = 0 THEN from ELSE EditedBasic(from \cup UNION {EditsBasic(c) : c \in from}, k - 1)

\* =================================================================== state
VARIABLES
  \* the Index page
  originalData, cleanedData, columns, cleanedColumns, columnStats, cleanedColumnStats,
  logs, config, isLoading, pipelineMode,
  pendingFile,       \* the file handleFileSelect is reading: 0 none, -1 an Excel file
  cleanTimer,        \* the setTimeout callback of handleClean and what it closes over
  \* the MLPipeline component
  mlConfig, isProcessing, pipelineLogs, baselineModel, pipelineApplied,
  \* the executing handleApplyPipeline: the await it is suspended at and its locals
  pc, phase, processedData, currentColumns, currentStats, runLogs,
  cfg,               \* the configuration the callback closes over
  onApplyColumns,    \* `columns` as onApplyPipeline closes over it
  orphan,            \* the component was unmounted while the callback executes
  \* history
  trace,             \* the stages executed by the run so far, in order
  consumed,          \* what each statistics-consuming stage of the run was handed
  cleanConsumed,     \* the same for the last handleClean callback
  done,              \* the output of the last completed stage of the run
  outcome,           \* how the last ML run ended
  cleanOutcome,      \* how the last handleClean callback ended
  runs, edits,       \* runs started and panel edits made in the session
  \* the function under test and its results (function specifications)
  fnInput, fnOnce, fnTwice

indexVars == <<originalData, cleanedData, columns, cleanedColumns, columnStats, cleanedColumnStats,
               logs, config, isLoading, pipelineMode, pendingFile, cleanTimer>>
componentVars == <<mlConfig, isProcessing, pipelineLogs, baselineModel, pipelineApplied>>
runVars == <<pc, phase, processedData, currentColumns, currentStats, runLogs, cfg, onApplyColumns, orphan>>
historyVars == <<trace, consumed, cleanConsumed, done, outcome, cleanOutcome, runs, edits>>
fnVars == <<fnInput, fnOnce, fnTwice>>
vars == <<indexVars, componentVars, runVars, historyVars, fnVars>>

\* ------------------------------------------------------------- derived state
hasData == Len(originalData) > 0
hasCleaned == Len(cleanedData) > 0
\* MLPipeline is rendered in the data view, in ML mode
Mounted == hasData /\ pipelineMode = "ml"
\* the props of MLPipeline
PropData == IF hasCleaned THEN cleanedData ELSE originalData
PropColumns == IF hasCleaned THEN Keys(cleanedData[1].obj) ELSE columns
PropStats == IF hasCleaned THEN cleanedColumnStats ELSE columnStats

NoTimer == [pending |-> FALSE, data |-> <<>>, columns |-> <<>>, columnStats |-> <<>>, config |-> DefaultBasic]

\* in-place writes reach the uploaded table through shared row objects
Touch(original, table) ==
  [k \in DOMAIN original |->
     IF \E r \in DOMAIN table : table[r].ref = k
     THEN [ref |-> k, obj |-> table[CHOOSE r \in DOMAIN table : table[r].ref = k].obj]
     ELSE original[k]]
\* the rows of a table once the uploaded table they belonged to is dropped
Detach(table) == [r \in DOMAIN table |-> Fresh(table[r].obj)]

\* logs.unshift(...entries)
UnshiftLogs(log, entries) == entries \o log

\* logs.push(...entries)
PushLogs(log, entries) == log \o entries

\* the (data, columns) pair of a run
Pair(data, cols) == [data |-> Plain(data), columns |-> cols]

\* --------------------------------------------------------- stage sequencing
\* the stages in the order the specification lists them
ListedOrder ==
  <<"normalize", "trim", "case", "dedupe", "near", "highMissing", "handleMissing", "lowVariance",
    "outlier", "time", "rolling", "lag", "polynomial", "binning", "geo", "encoding", "scaling",
    "model", "cleanNaN", "removeAllNull">>

\* the stages in the order of the code of handleApplyPipeline
Order ==
  <<"trim", "normalize", "case", "dedupe", "near", "highMissing", "handleMissing", "lowVariance",
    "outlier", "time", "rolling", "lag", "polynomial", "binning", "geo", "encoding", "scaling",
    "model", "cleanNaN", "removeAllNull">>

\* every stage taken as switched on
AlwaysEnabled(c, s) == TRUE

\* the condition of the `if` that guards a stage
Enabled(c, s) ==
  CASE s = "trim" -> c.trimWhitespace
    [] s = "normalize" -> c.normalizeColumnNames
    [] s = "case" -> c.standardizeCase
    [] s = "dedupe" -> c.removeDuplicates
    [] s = "near" -> c.removeNearDuplicates
    [] s = "highMissing" -> c.removeHighMissing
    [] s = "handleMissing" -> c.handleMissing
    [] s = "lowVariance" -> c.removeLowVariance
    [] s = "outlier" -> c.outlierEnabled
    [] s = "time" -> c.timeFeatures /\ c.timeColumn # <<>>
    [] s = "rolling" -> c.rollingFeatures /\ c.rollingColumn # <<>>
    [] s = "lag" -> c.lagFeatures /\ c.lagColumn # <<>>
    [] s = "polynomial" -> c.polynomialFeatures /\ Len(c.polynomialColumns) > 0
    [] s = "binning" -> c.binning /\ c.binColumn # <<>>
    [] s = "geo" -> c.geoEnabled /\ c.latColumn # <<>> /\ c.lonColumn # <<>>
    [] s = "encoding" -> c.encodingEnabled /\ Len(c.encodingColumns) > 0
    [] s = "scaling" -> c.scalingEnabled /\ Len(c.scalingColumns) > 0
    [] s = "model" -> c.modelEnabled /\ c.targetColumn # <<>>
    [] s = "cleanNaN" -> TRUE
    [] s = "removeAllNull" -> TRUE

\* the stage whose code runs next when the callback resumes at the `if` of
\* stage s: awaits with nothing executed between them are one suspension
NextStage(c, s) ==
  LET from == IndexOf(Order, s)
      i == CHOOSE i \in from..Len(Order) :
             Enabled(c, Order[i]) /\ \A j \in from..(i - 1) : ~Enabled(c, Order[j])
  IN Order[i]
\* the `if` after the code of stage s
After(s) == Order[IndexOf(Order, s) + 1]

\* the callback is suspended and resumes with the code of stage s
Ready(s) == pc # "idle" /\ NextStage(cfg, pc) = s

\* the callback runs to its next await: locals, position and history
Advance(data, cols, stats, entries, stage, finished, nextPhase) ==
  /\ processedData' = data
  /\ currentColumns' = cols
  /\ currentStats' = stats
  /\ runLogs' = PushLogs(runLogs, entries)
  /\ pc' = IF finished THEN After(stage) ELSE stage
  /\ phase' = nextPhase
  /\ trace' = Append(trace, stage)
  /\ originalData' = Touch(originalData, data)
  /\ UNCHANGED <<cleanedData, columns, cleanedColumns, columnStats, cleanedColumnStats, logs,
                 config, isLoading, pipelineMode, pendingFile, cleanTimer>>
  /\ UNCHANGED <<mlConfig, isProcessing, pipelineLogs, pipelineApplied>>
  /\ UNCHANGED <<cfg, onApplyColumns, orphan, cleanConsumed, outcome, cleanOutcome, runs, edits>>
  /\ UNCHANGED fnVars

\* ---------------------------------------------------------------------- Init
\* the page after construction, before any event
PageInit ==
  /\ originalData = <<>> /\ cleanedData = <<>>
  /\ columns = <<>> /\ cleanedColumns = <<>>
  /\ columnStats = <<>> /\ cleanedColumnStats = <<>>
  /\ logs = <<>> /\ config = DefaultBasic /\ isLoading = FALSE /\ pipelineMode = "basic"
  /\ pendingFile = 0 /\ cleanTimer = NoTimer
  /\ mlConfig = DefaultML /\ isProcessing = FALSE /\ pipelineLogs = <<>>
  /\ baselineModel = NoModel /\ pipelineApplied = FALSE
  /\ pc = "idle" /\ phase = 0 /\ processedData = <<>> /\ currentColumns = <<>>
  /\ currentStats = <<>> /\ runLogs = <<>> /\ cfg = DefaultML /\ onApplyColumns = <<>>
  /\ orphan = FALSE
  /\ trace = <<>> /\ consumed = <<>> /\ cleanConsumed = <<>>
  /\ done = Pair(<<>>, <<>>) /\ outcome = "none" /\ cleanOutcome = "none"
  /\ runs = 0 /\ edits = 0

Init == PageInit /\ fnInput = <<>> /\ fnOnce = <<>> /\ fnTwice = <<>>

\* ------------------------------------------------- handleApplyPipeline (ML)
\* the click on Apply Pipeline, up to the first await.  The button is disabled
\* while isProcessing or without data.  One callback is followed at a time.
ApplyStart ==
  /\ Mounted /\ ~isProcessing /\ Len(PropData) > 0
  /\ pc = "idle" /\ runs < MaxRuns
  /\ isProcessing' = TRUE
  /\ processedData' = PropData
  /\ currentColumns' = PropColumns
  /\ currentStats' = PropStats
  /\ runLogs' = <<>>
  /\ cfg' = mlConfig
  /\ onApplyColumns' = columns
  /\ orphan' = FALSE
  /\ pc' = Order[1] /\ phase' = 0
  /\ trace' = <<>> /\ consumed' = <<>>
  /\ done' = Pair(PropData, PropColumns)
  /\ outcome' = "running"
  /\ runs' = runs + 1
  /\ UNCHANGED <<indexVars, mlConfig, pipelineLogs, baselineModel, pipelineApplied,
                 cleanConsumed, cleanOutcome, edits, fnVars>>

\* the statistics of an earlier point reused
ReuseStats(data, cols, stale) == stale
\* currentStats = analyzeColumns(processedData, currentColumns)
Recompute(data, cols, stale) == analyzeColumns(data, cols)
\* the column list left as it was
KeepColumns(resultColumns, current) == current
\* currentColumns = result.columns
TakeColumns(resultColumns, current) == resultColumns
\* what a statistics-consuming stage is handed
Consumption(stage, stats, data, cols) ==
  [stage |-> stage, stats |-> stats, data |-> Plain(data), columns |-> cols]

TrimCells ==
  /\ Ready("trim")
  /\ LET result == trimWhitespace(processedData, currentColumns)
     IN /\ Advance(result.data, currentColumns, currentStats, result.logs, "trim", TRUE, 0)
        /\ done' = Pair(result.data, currentColumns)
  /\ UNCHANGED <<consumed, baselineModel>>

\* newRow[result.mapping[key] || key] = value over Object.entries(row)
RenameKeys(obj, mapping) ==
  PutSeq(<<>>,
         [i \in DOMAIN obj |-> IF obj[i].k \in DOMAIN mapping /\ mapping[obj[i].k] # <<>>
                               THEN mapping[obj[i].k] ELSE obj[i].k],
         [i \in DOMAIN obj |-> obj[i].v])

NormalizeColumns ==
  /\ Ready("normalize")
  /\ LET result == normalizeColumnNames(currentColumns)
         renamed == [r \in DOMAIN processedData |-> Fresh(RenameKeys(processedData[r].obj, result.mapping))]
     IN /\ Advance(renamed, TakeColumns(result.columns, currentColumns), currentStats,
                   <<result.log>>, "normalize", TRUE, 0)
        /\ done' = Pair(renamed, result.columns)
  /\ UNCHANGED <<consumed, baselineModel>>

StandardizeCase ==
  /\ Ready("case")
  /\ LET result == standardizeCase(processedData, currentColumns, cfg.caseType)
     IN /\ Advance(result.data, currentColumns, currentStats, result.logs, "case", TRUE, 0)
        /\ done' = Pair(result.data, currentColumns)
  /\ UNCHANGED <<consumed, baselineModel>>

ExactDedupe ==
  /\ Ready("dedupe")
  /\ LET result == removeDuplicates(processedData, currentColumns)
     IN /\ Advance(result.data, currentColumns, currentStats, result.logs, "dedupe", TRUE, 0)
        /\ done' = Pair(result.data, currentColumns)
  /\ UNCHANGED <<consumed, baselineModel>>

NearDedupe ==
  /\ Ready("near")
  /\ LET result == removeNearDuplicates(processedData, currentColumns, nearDuplicateTolerance)
     IN /\ Advance(result.data, currentColumns, currentStats, result.logs, "near", TRUE, 0)
        /\ done' = Pair(result.data, currentColumns)
  /\ UNCHANGED <<consumed, baselineModel>>

\* the statistics are recomputed, the callback awaits, then the stage applies
Analyze(stage) ==
  /\ Ready(stage) /\ phase = 0
  /\ Advance(processedData, currentColumns,
             Recompute(processedData, currentColumns, currentStats), <<>>, stage, FALSE, 1)
  /\ UNCHANGED <<consumed, done, baselineModel>>

\* a stage that consumes the statistics and may drop columns
ApplyDropping(stage, result) ==
  /\ Ready(stage) /\ phase = 1
  /\ consumed' = Append(consumed, Consumption(stage, currentStats, processedData, currentColumns))
  /\ Advance(result.data, TakeColumns(result.columns, currentColumns), currentStats,
             result.logs, stage, TRUE, 0)
  /\ done' = Pair(result.data, result.columns)
  /\ UNCHANGED baselineModel

DropHighMissing ==
  \/ Analyze("highMissing")
  \/ ApplyDropping("highMissing",
                   dropHighMissingColumns(processedData, currentColumns, currentStats,
                                          highMissingThreshold * 100))

HandleMissing ==
  \/ Analyze("handleMissing")
  \/ /\ Ready("handleMissing") /\ phase = 1
     /\ LET threshold == IF cfg.missingStrategy = "remove" THEN Num(missingThreshold) ELSE Undef
            result == handleMissingValues(processedData, currentColumns, currentStats,
                                          cfg.missingStrategy, Undef, threshold)
        IN /\ Advance(result.data, currentColumns, currentStats, result.logs,
                      "handleMissing", TRUE, 0)
           /\ done' = Pair(result.data, currentColumns)
     /\ consumed' = Append(consumed, Consumption("handleMissing", currentStats, processedData,
                                                 currentColumns))
     /\ UNCHANGED baselineModel

DropLowVariance ==
  \/ Analyze("lowVariance")
  \/ ApplyDropping("lowVariance",
                   removeLowVarianceFeatures(processedData, currentColumns, currentStats,
                                             lowVarianceThreshold))

Outliers ==
  /\ Ready("outlier")
  /\ LET stats == Recompute(processedData, currentColumns, currentStats)
         result == removeOutliers(processedData, currentColumns, stats, cfg.outlierMethod,
                                  cfg.outlierTreatment, outlierThreshold)
     IN /\ Advance(result.data, currentColumns, stats, result.logs, "outlier", TRUE, 0)
        /\ done' = Pair(result.data, currentColumns)
        /\ consumed' = Append(consumed, Consumption("outlier", stats, processedData, currentColumns))
  /\ UNCHANGED baselineModel

\* processedData.length > 0 ? Object.keys(processedData[0]) : currentColumns
KeysOrCurrent(data, current) == IF Len(data) > 0 THEN Keys(data[1].obj) ELSE current

\* a feature stage: the table is replaced, the column list is read off row 0
Feature(stage, result) ==
  /\ Ready(stage)
  /\ Advance(result.data, KeysOrCurrent(result.data, currentColumns), currentStats,
             <<result.log>>, stage, TRUE, 0)
  /\ done' = Pair(result.data, KeysOrCurrent(result.data, currentColumns))
  /\ UNCHANGED <<consumed, baselineModel>>

TimeFeatures ==
  Feature("time", extractTimeFeatures(processedData, cfg.timeColumn, TimeFeatureNames))

RollingFeatures ==
  Feature("rolling", createRollingFeatures(processedData, cfg.rollingColumn, rollingWindows,
                                           RollingFunctions))

LagFeatures ==
  Feature("lag", createLagFeatures(processedData, cfg.lagColumn, lagPeriods))

PolynomialFeatures ==
  Feature("polynomial", createPolynomialFeatures(processedData, cfg.polynomialColumns,
                                                 polynomialDegree))

Binning ==
  Feature("binning", binNumericFeature(processedData, cfg.binColumn,
                                       IF cfg.binMethod = "quantile" THEN "quantile" ELSE "uniform",
                                       binCount))

\* the cluster assignments k-means can end with
ClusterOutcomes(data, latColumn, lonColumn) ==
  LET valid == ValidPoints(data, latColumn, lonColumn)
  IN IF Cardinality(valid) < numClusters THEN {<<>>} ELSE [valid -> 0..(numClusters - 1)]

GeoEncoding ==
  \E assignments \in ClusterOutcomes(processedData, cfg.latColumn, cfg.lonColumn) :
    Feature("geo",
            CASE cfg.geoMethod = "grid" ->
                   gridEncode(processedData, cfg.latColumn, cfg.lonColumn, gridSize)
              [] cfg.geoMethod = "cluster" ->
                   geoCluster(processedData, cfg.latColumn, cfg.lonColumn, numClusters, assignments)
              [] cfg.geoMethod = "hex" ->
                   hexEncode(processedData, cfg.latColumn, cfg.lonColumn, hexResolution))

\* the switch of the encoding loop for one column: the new table and the
\* log entries pushed (none when target encoding has no target column)
EncodeColumn(data, col, method, targetColumn) ==
  LET one(result) == [data |-> result.data, logs |-> <<result.log>>]
  IN CASE method = "onehot" -> one(oneHotEncode(data, col, FALSE))
       [] method = "label" -> one(labelEncode(data, col))
       [] method = "frequency" -> one(frequencyEncode(data, col))
       [] method = "target" ->
            IF targetColumn # <<>> THEN one(targetEncode(data, col, targetColumn, targetSmoothing))
            ELSE [data |-> data, logs |-> <<>>]
       [] method = "binary" -> one(binaryEncode(data, col))

\* one iteration of the loop per resumption; phase counts the columns done
CategoricalEncoding ==
  /\ Ready("encoding")
  /\ LET result == EncodeColumn(processedData, cfg.encodingColumns[phase + 1],
                                cfg.encodingMethod, cfg.targetColumn)
         last == phase + 1 = Len(cfg.encodingColumns)
         cols == IF last THEN KeysOrCurrent(result.data, currentColumns) ELSE currentColumns
     IN /\ Advance(result.data, cols, currentStats, result.logs, "encoding", last,
                   IF last THEN 0 ELSE phase + 1)
        /\ done' = IF last THEN Pair(result.data, cols) ELSE done
  /\ UNCHANGED <<consumed, baselineModel>>

\* the transform applied before scaling
TransformStep(data, cols, transform) ==
  IF transform = "log" THEN logTransform(data, cols, logOffset) ELSE sqrtTransform(data, cols)

\* the scaler selected by scalingConfig.method
ScaleStep(data, cols, method) ==
  CASE method = "standard" -> standardScale(data, cols)
    [] method = "minmax" -> minMaxScale(data, cols, defaultFeatureRange)
    [] method = "robust" -> robustScale(data, cols)

Scaling ==
  /\ Ready("scaling")
  /\ \/ /\ phase = 0 /\ cfg.scalingTransform \in {"log", "sqrt"}
        /\ LET result == TransformStep(processedData, cfg.scalingColumns, cfg.scalingTransform)
           IN Advance(result.data, currentColumns, currentStats, <<result.log>>, "scaling", FALSE, 1)
        /\ UNCHANGED done
     \/ /\ phase = 1 \/ cfg.scalingTransform = "none"
        /\ \E result \in {ScaleStep(processedData, cfg.scalingColumns, cfg.scalingMethod)} :
             /\ Advance(result.data, currentColumns, currentStats, <<result.log>>, "scaling", TRUE, 0)
             /\ done' = Pair(result.data, currentColumns)
  /\ UNCHANGED <<consumed, baselineModel>>

\* the numeric feature columns of model training
NumericColumns(cols, stats, targetColumn) ==
  FilterSeq(cols, {i \in DOMAIN cols :
                     cols[i] # targetColumn /\ HasStats(stats, cols[i])
                     /\ FindStats(stats, cols[i]).type = "number"})

\* the body of the manual branch of model training: the model and the entries
ManualTraining(data, numericColumns, targetColumn, stats, modelType) ==
  LET isClassification == HasStats(stats, targetColumn)
                          /\ FindStats(stats, targetColumn).type # "number"
      auto == autoTrainBaseline(data, numericColumns, targetColumn)
      entry == Log("Baseline Model", NoColumn, Len(data), "model")
  IN IF modelType = "linear" /\ ~isClassification
     THEN [model |-> trainLinearRegression(data, numericColumns, targetColumn), logs |-> <<entry>>]
     ELSE IF modelType = "logistic" /\ isClassification
     THEN [model |-> trainLogisticRegression(data, numericColumns, targetColumn), logs |-> <<entry>>]
     ELSE IF modelType = "tree"
     THEN [model |-> trainDecisionTree(data, numericColumns, targetColumn), logs |-> <<entry>>]
     ELSE [model |-> auto.model, logs |-> <<auto.log, entry>>]

\* setState of an unmounted component does nothing
SetIfMounted(value, current) == IF orphan THEN current ELSE value

TrainModel ==
  /\ Ready("model")
  /\ \/ /\ phase = 0
        /\ Advance(processedData, currentColumns,
                   Recompute(processedData, currentColumns, currentStats), <<>>, "model", FALSE, 1)
        /\ UNCHANGED <<consumed, baselineModel>>
     \/ /\ phase = 1
        /\ consumed' = Append(consumed, Consumption("model", currentStats, processedData, currentColumns))
        /\ IF NumericColumns(currentColumns, currentStats, cfg.targetColumn) = <<>>
           THEN /\ baselineModel' = SetIfMounted(NoModel, baselineModel)
                /\ Advance(processedData, currentColumns, currentStats,
                           <<Log("Baseline Model", NoColumn, 0, "model")>>, "model", TRUE, 0)
           ELSE /\ UNCHANGED baselineModel
                /\ Advance(processedData, currentColumns, currentStats, <<>>, "model", FALSE, 2)
     \/ /\ phase = 2
        /\ \E fault \in BOOLEAN :
             LET numericColumns == NumericColumns(currentColumns, currentStats, cfg.targetColumn)
                 auto == autoTrainBaseline(processedData, numericColumns, cfg.targetColumn)
                 result == IF cfg.autoSelect THEN [model |-> auto.model, logs |-> <<auto.log>>]
                           ELSE ManualTraining(processedData, numericColumns, cfg.targetColumn,
                                               currentStats, cfg.modelType)
             IN IF fault \/ result.model.thrown
                THEN /\ UNCHANGED baselineModel
                     /\ Advance(processedData, currentColumns, currentStats,
                                <<Log("Baseline Model Error", NoColumn, 0, "model")>>, "model", TRUE, 0)
                ELSE /\ baselineModel' = SetIfMounted(result.model, baselineModel)
                     /\ Advance(processedData, currentColumns, currentStats, result.logs,
                                "model", TRUE, 0)
        /\ UNCHANGED consumed
  /\ done' = Pair(processedData, currentColumns)

CleanNaN ==
  /\ Ready("cleanNaN")
  /\ LET result == cleanNaNValues(processedData, currentColumns)
     IN /\ Advance(result.data, currentColumns, currentStats, result.logs, "cleanNaN", TRUE, 0)
        /\ done' = Pair(result.data, currentColumns)
  /\ UNCHANGED <<consumed, baselineModel>>

\* the callback returns: its locals are gone with its frame
Returned ==
  /\ processedData' = <<>> /\ currentColumns' = <<>> /\ currentStats' = <<>> /\ runLogs' = <<>>
  /\ cfg' = DefaultML /\ onApplyColumns' = <<>> /\ orphan' = FALSE
  /\ pc' = "idle" /\ phase' = 0
  /\ trace' = <<>> /\ consumed' = <<>> /\ done' = Pair(<<>>, <<>>)

\* the last stage, the delivery and the finally block run without an await:
\* setPipelineLogs, onApplyPipeline (handleApplyPipeline of the Index page),
\* setPipelineApplied, setIsProcessing(false)
RemoveAllNullColumns ==
  /\ Ready("removeAllNull")
  /\ LET result == removeAllNullColumns(processedData, Unit)
         entries == PushLogs(runLogs, result.logs)
         newColumns == IF Len(result.data) > 0 THEN Keys(result.data[1].obj) ELSE onApplyColumns
     IN /\ pipelineLogs' = SetIfMounted(entries, pipelineLogs)
        /\ cleanedData' = result.data
        /\ cleanedColumns' = newColumns
        /\ cleanedColumnStats' = analyzeColumns(result.data, newColumns)
        /\ logs' = logs \o entries
        /\ originalData' = Touch(originalData, result.data)
  /\ pipelineApplied' = SetIfMounted(TRUE, pipelineApplied)
  /\ isProcessing' = SetIfMounted(FALSE, isProcessing)
  /\ Returned
  /\ outcome' = "delivered"
  /\ UNCHANGED <<columns, columnStats, config, isLoading, pipelineMode, pendingFile, cleanTimer>>
  /\ UNCHANGED <<mlConfig, baselineModel>>
  /\ UNCHANGED <<cleanConsumed, cleanOutcome, runs, edits, fnVars>>

\* the operation a stage calls throws (a RangeError of Math.min(...values) on
\* a long column, for one): the catch block pushes an entry on the local
\* array `logs`, which is gone when the callback returns; the finally block
\* resets isProcessing.  Model training has its own catch.
StageThrows ==
  /\ pc # "idle" /\ NextStage(cfg, pc) # "model"
  /\ isProcessing' = SetIfMounted(FALSE, isProcessing)
  /\ Returned
  /\ outcome' = "threw"
  /\ UNCHANGED <<indexVars, mlConfig, pipelineLogs, baselineModel, pipelineApplied>>
  /\ UNCHANGED <<cleanConsumed, cleanOutcome, runs, edits, fnVars>>

\* ------------------------------------------------------- handleClean (basic)
basicMissingThreshold == (5 * Unit) \div 10
defaultOutlierThreshold == (15 * Unit) \div 10

\* the callback of handleClean on the values it closes over
\* the locals of the timer callback: data, currentStats, allLogs
CleanLocals(data, stats) == [data |-> data, stats |-> stats, logs |-> <<>>, consumed |-> <<>>]
\* data = result.data; allLogs.push(...result.logs)
CleanApply(st, result) == [st EXCEPT !.data = result.data, !.logs = PushLogs(@, result.logs)]
\* currentStats = analyzeColumns(data, currentColumns), and what is then handed on
CleanAnalyze(stage, st, cols) ==
  [st EXCEPT !.stats = Recompute(st.data, cols, @),
             !.consumed = Append(@, Consumption(stage, Recompute(st.data, cols, st.stats), st.data, cols))]

CleanTrim(st, cols, c) ==
  IF c.trimWhitespace THEN CleanApply(st, trimWhitespace(st.data, cols)) ELSE st
CleanCase(st, cols, c) ==
  IF c.standardizeCase THEN CleanApply(st, standardizeCase(st.data, cols, c.caseType)) ELSE st
CleanDedupe(st, cols, c) ==
  IF c.removeDuplicates THEN CleanApply(st, removeDuplicates(st.data, cols)) ELSE st
CleanRemoveWith(st, cols) ==
  CleanApply(st, handleMissingValues(st.data, cols, st.stats, "remove", Undef, Num(basicMissingThreshold)))
CleanRemove(st, cols, c) ==
  IF c.removeEnabled THEN CleanRemoveWith(CleanAnalyze("removeMissing", st, cols), cols) ELSE st
CleanFillWith(st, cols, c) ==
  CleanApply(st, handleMissingValues(st.data, cols, st.stats, c.missingStrategy, Undef, Undef))
CleanFill(st, cols, c) ==
  IF c.handleMissing /\ c.missingStrategy # "remove"
  THEN CleanFillWith(CleanAnalyze("fillMissing", st, cols), cols, c) ELSE st
CleanOutliersWith(st, cols, c) ==
  CleanApply(st, removeOutliers(st.data, cols, st.stats, c.outlierMethod, "remove", defaultOutlierThreshold))
CleanOutliers(st, cols, c) ==
  IF c.removeOutliers THEN CleanOutliersWith(CleanAnalyze("removeOutliers", st, cols), cols, c) ELSE st
\* finalStats and what the callback stores
CleanFinal(st, cols) ==
  [ data |-> st.data, columns |-> cols, stats |-> analyzeColumns(st.data, cols),
    logs |-> st.logs, consumed |-> st.consumed ]

\* the body of the timer callback of handleClean
CleanRun(data, cols, stats, c) ==
  CleanFinal(
    CleanOutliers(
      CleanFill(
        CleanRemove(
          CleanDedupe(CleanCase(CleanTrim(CleanLocals(data, stats), cols, c), cols, c), cols, c),
          cols, c),
        cols, c),
      cols, c),
    cols)

\* the click on Clean: setIsLoading(true) and a timer.  The button is disabled
\* while isLoading.  One timer is followed at a time.
CleanStart ==
  /\ hasData /\ pipelineMode = "basic" /\ ~isLoading
  /\ ~cleanTimer.pending /\ runs < MaxRuns
  /\ isLoading' = TRUE
  /\ cleanTimer' = [pending |-> TRUE, data |-> originalData, columns |-> columns,
                    columnStats |-> columnStats, config |-> config]
  /\ runs' = runs + 1
  /\ UNCHANGED <<originalData, cleanedData, columns, cleanedColumns, columnStats,
                 cleanedColumnStats, logs, config, pipelineMode, pendingFile>>
  /\ UNCHANGED <<componentVars, runVars, fnVars>>
  /\ UNCHANGED <<trace, consumed, cleanConsumed, done, outcome, cleanOutcome, edits>>

\* the timer callback runs to its end
CleanTimeout ==
  /\ cleanTimer.pending
  /\ LET result == CleanRun(cleanTimer.data, cleanTimer.columns, cleanTimer.columnStats,
                            cleanTimer.config)
     IN /\ cleanedData' = result.data
        /\ cleanedColumns' = result.columns
        /\ cleanedColumnStats' = result.stats
        /\ logs' = result.logs
        /\ cleanConsumed' = result.consumed
        /\ originalData' = Touch(originalData, result.data)
  /\ isLoading' = FALSE
  /\ cleanTimer' = NoTimer
  /\ cleanOutcome' = "done"
  /\ UNCHANGED <<columns, columnStats, config, pipelineMode, pendingFile>>
  /\ UNCHANGED <<componentVars, runVars, fnVars>>
  /\ UNCHANGED <<trace, consumed, done, outcome, runs, edits>>

\* an operation throws inside the timer callback: nothing catches it
CleanThrows ==
  /\ cleanTimer.pending
  /\ cleanTimer' = NoTimer
  /\ cleanOutcome' = "threw"
  /\ UNCHANGED <<originalData, cleanedData, columns, cleanedColumns, columnStats,
                 cleanedColumnStats, logs, config, isLoading, pipelineMode, pendingFile>>
  /\ UNCHANGED <<componentVars, runVars, fnVars>>
  /\ UNCHANGED <<trace, consumed, cleanConsumed, done, outcome, runs, edits>>

\* ------------------------------------------------------ the rest of the page
\* MLPipeline leaves the screen: its state is gone, a callback that is still
\* executing goes on with the values it closes over
Unmount ==
  /\ mlConfig' = DefaultML
  /\ isProcessing' = FALSE
  /\ pipelineLogs' = <<>>
  /\ baselineModel' = NoModel
  /\ pipelineApplied' = FALSE
  /\ orphan' = (pc # "idle")

\* handleFileSelect up to its await; the upload screen shows without data
FileSelectStart ==
  /\ ~hasData /\ ~isLoading /\ pendingFile = 0
  /\ isLoading' = TRUE
  /\ pendingFile' \in (DOMAIN Files) \cup {-1}
  /\ UNCHANGED <<originalData, cleanedData, columns, cleanedColumns, columnStats,
                 cleanedColumnStats, logs, config, pipelineMode, cleanTimer>>
  /\ UNCHANGED <<componentVars, runVars, historyVars, fnVars>>

\* the file is read: it is parsed and stored, or parsing throws (parseExcel
\* always does) and the page falls back to no data
FileSelectDone ==
  /\ pendingFile # 0
  /\ IF pendingFile = -1
     THEN /\ originalData' = <<>>
          /\ columns' = <<>>
          /\ UNCHANGED <<cleanedData, cleanedColumns, columnStats, cleanedColumnStats, logs>>
     ELSE LET file == Files[pendingFile]
              data == Upload(file.columns, file.rows)
          IN /\ originalData' = data
             /\ cleanedData' = <<>>
             /\ columns' = file.columns
             /\ cleanedColumns' = <<>>
             /\ columnStats' = analyzeColumns(data, file.columns)
             /\ cleanedColumnStats' = <<>>
             /\ logs' = <<>>
  /\ isLoading' = FALSE
  /\ pendingFile' = 0
  /\ UNCHANGED <<config, pipelineMode, cleanTimer>>
  /\ UNCHANGED <<componentVars, runVars, historyVars, fnVars>>

\* the New File button of the data view
HandleReset ==
  /\ hasData
  /\ originalData' = <<>> /\ cleanedData' = <<>>
  /\ columns' = <<>> /\ cleanedColumns' = <<>>
  /\ columnStats' = <<>> /\ cleanedColumnStats' = <<>>
  /\ logs' = <<>>
  /\ config' = DefaultBasic
  /\ pipelineMode' = "basic"
  /\ Unmount
  /\ processedData' = Detach(processedData)
  /\ cleanTimer' = [cleanTimer EXCEPT !.data = Detach(@)]
  /\ UNCHANGED <<isLoading, pendingFile>>
  /\ UNCHANGED <<pc, phase, currentColumns, currentStats, runLogs, cfg, onApplyColumns>>
  /\ UNCHANGED <<historyVars, fnVars>>

\* the Basic Cleaning / ML Pipeline toggle
SetPipelineMode ==
  /\ hasData
  /\ \/ /\ pipelineMode = "basic"
        /\ pipelineMode' = "ml"
        /\ UNCHANGED <<componentVars, orphan>>
     \/ /\ pipelineMode = "ml"
        /\ pipelineMode' = "basic"
        /\ Unmount
  /\ UNCHANGED <<originalData, cleanedData, columns, cleanedColumns, columnStats,
                 cleanedColumnStats, logs, config, isLoading, pendingFile, cleanTimer>>
  /\ UNCHANGED <<pc, phase, processedData, currentColumns, currentStats, runLogs, cfg,
                 onApplyColumns>>
  /\ UNCHANGED <<historyVars, fnVars>>

\* the panel of MLPipeline is edited.  A callback that executes closes over
\* the configuration of its click, so edits are taken between runs.
EditML ==
  /\ Mounted /\ pc = "idle" /\ edits < MaxEdits
  /\ mlConfig' \in EditedML({DefaultML, AllOffML}, PropColumns, MaxDeviations) \ {mlConfig}
  /\ edits' = edits + 1
  /\ UNCHANGED <<indexVars, isProcessing, pipelineLogs, baselineModel, pipelineApplied>>
  /\ UNCHANGED <<runVars, trace, consumed, cleanConsumed, done, outcome, cleanOutcome, runs, fnVars>>

\* the panel of CleaningOptions is edited
EditBasic ==
  /\ hasData /\ pipelineMode = "basic" /\ ~cleanTimer.pending /\ edits < MaxEdits
  /\ config' \in EditedBasic({DefaultBasic, AllOffBasic}, MaxDeviations) \ {config}
  /\ edits' = edits + 1
  /\ UNCHANGED <<originalData, cleanedData, columns, cleanedColumns, columnStats,
                 cleanedColumnStats, logs, isLoading, pipelineMode, pendingFile, cleanTimer>>
  /\ UNCHANGED <<componentVars, runVars, fnVars>>
  /\ UNCHANGED <<trace, consumed, cleanConsumed, done, outcome, cleanOutcome, runs>>

\* -------------------------------------------------------------- specification
Next ==
  \/ FileSelectStart \/ FileSelectDone \/ HandleReset \/ SetPipelineMode
  \/ EditML \/ EditBasic
  \/ CleanStart \/ CleanTimeout \/ CleanThrows
  \/ ApplyStart
  \/ TrimCells \/ NormalizeColumns \/ StandardizeCase \/ ExactDedupe \/ NearDedupe
  \/ DropHighMissing \/ HandleMissing \/ DropLowVariance \/ Outliers
  \/ TimeFeatures \/ RollingFeatures \/ LagFeatures \/ PolynomialFeatures \/ Binning
  \/ GeoEncoding \/ CategoricalEncoding \/ Scaling \/ TrainModel
  \/ CleanNaN \/ RemoveAllNullColumns \/ StageThrows

Spec == Init /\ [][Next]_vars

\* ---------------------------------------------------------- stage order
\* the stages listed with trim before normalize-columns
TrimFirstOrder ==
  <<"trim", "normalize", "case", "dedupe", "near", "highMissing", "handleMissing", "lowVariance",
    "outlier", "time", "rolling", "lag", "polynomial", "binning", "geo", "encoding", "scaling",
    "model", "cleanNaN", "removeAllNull">>

\* no stage of the trace runs before a stage that precedes it in the list
Respects(list) ==
  \A i, j \in DOMAIN trace : i < j => IndexOf(list, trace[i]) <= IndexOf(list, trace[j])

\* C1 as stated: the stages of a run execute in the listed order, which
\* starts normalize-columns, trim
C1_ListedOrder == Respects(ListedOrder)

\* C1: the stages of a run execute in the listed order with its first two
\* stages exchanged (trim, then normalize-columns): no stage ever runs
\* before a stage that precedes it
C1_TrimFirstOrder == Respects(TrimFirstOrder)

\* trim has run, then normalize-columns, then a later stage
C1_Witness ==
  /\ Len(trace) >= 3
  /\ trace[1] = "trim" /\ trace[2] = "normalize" /\ trace[3] \notin {"trim", "normalize"}

\* --------------------------------------------------------- error handling
HasOperation(log, operation) == \E i \in DOMAIN log : log[i].operation = operation

\* C2: a run in which a stage threw has delivered a log with the dedicated
\* error entry, to the displayed pipeline log and to the page
C2_ErrorDelivered ==
  outcome = "threw" =>
    /\ HasOperation(pipelineLogs, "Pipeline Error") \/ ~Mounted
    /\ HasOperation(logs, "Pipeline Error") \/ ~hasData

\* C3: once no run is executing, the in-progress and loading indicators
\* are reset, whether the run completed or a stage threw
C3_IndicatorReset ==
  /\ pc = "idle" => ~isProcessing
  /\ (~cleanTimer.pending /\ pendingFile = 0) => ~isLoading

\* ------------------------------------------------------------ column list
\* the keys of every row are the columns of the list
KeysAre(data, cols) == \A r \in DOMAIN data : Range(Keys(data[r].obj)) = Range(cols)

\* C4: at the start of every stage of a run the running column list names
\* exactly the keys of the rows of the running table
C4_ColumnsMatchKeys ==
  (pc # "idle" /\ phase = 0) => KeysAre(processedData, currentColumns)

\* ------------------------------------------------------------- statistics
\* the rows of a recorded table
Rows(plain) == [r \in DOMAIN plain |-> Fresh(plain[r])]
FreshAt(entry) == entry.stats = analyzeColumns(Rows(entry.data), entry.columns)

\* C5: the statistics every statistics-consuming stage was handed, in the
\* ML pipeline and in basic cleaning, are the analyzer's result on the
\* table and the column list it was handed
C5_FreshStatistics ==
  /\ \A i \in DOMAIN consumed : FreshAt(consumed[i])
  /\ \A i \in DOMAIN cleanConsumed : FreshAt(cleanConsumed[i])

\* a stage was handed statistics that differ from those of the upload
C5_Witness ==
  /\ hasData /\ pc # "idle" /\ ~orphan
  /\ \E i \in DOMAIN consumed : consumed[i].stats # columnStats

\* -------------------------------------------------------- stage switches
\* the switch of a stage in the configuration; the two cleanup stages at the
\* end have none
SwitchOn(c, s) ==
  CASE s = "trim" -> c.trimWhitespace
    [] s = "normalize" -> c.normalizeColumnNames
    [] s = "case" -> c.standardizeCase
    [] s = "dedupe" -> c.removeDuplicates
    [] s = "near" -> c.removeNearDuplicates
    [] s = "highMissing" -> c.removeHighMissing
    [] s = "handleMissing" -> c.handleMissing
    [] s = "lowVariance" -> c.removeLowVariance
    [] s = "outlier" -> c.outlierEnabled
    [] s = "time" -> c.timeFeatures
    [] s = "rolling" -> c.rollingFeatures
    [] s = "lag" -> c.lagFeatures
    [] s = "polynomial" -> c.polynomialFeatures
    [] s = "binning" -> c.binning
    [] s = "geo" -> c.geoEnabled
    [] s = "encoding" -> c.encodingEnabled
    [] s = "scaling" -> c.scalingEnabled
    [] s = "model" -> c.modelEnabled
    [] OTHER -> TRUE
Switchable == Range(SubSeq(TrimFirstOrder, 1, 18))
AllSwitchedOff(c) == \A s \in Switchable : ~SwitchOn(c, s)

\* the locals of the run are what they were
RunUntouched ==
  /\ Plain(processedData') = Plain(processedData)
  /\ currentColumns' = currentColumns
  /\ runLogs' = runLogs

\* C6 as stated: every stage can be disabled, so a run with every stage
\* disabled delivers the table it was given and no log entry
C6_EveryStageSwitchable ==
  [][(outcome = "running" /\ outcome' = "delivered" /\ ~orphan /\ AllSwitchedOff(cfg))
       => (Plain(cleanedData') = Plain(originalData) /\ logs' = logs /\ pipelineLogs' = <<>>)]_vars

\* C6: every stage but the NaN cleanup and the removal of all-null columns
\* has a switch, and a run changes its table, its column list or its log
\* only in a step of a stage whose switch is on: a disabled stage is
\* skipped entirely
C6_DisabledSkipped ==
  [][(outcome = "running" /\ outcome' = "running")
       => \/ trace' = trace /\ RunUntouched
          \/ /\ Len(trace') = Len(trace) + 1 /\ SubSeq(trace', 1, Len(trace)) = trace
             /\ SwitchOn(cfg, trace'[Len(trace')])]_vars

\* trim is disabled and the run went on with a later stage
C6_Witness ==
  /\ pc # "idle" /\ ~cfg.trimWhitespace /\ ~AllSwitchedOff(cfg)
  /\ trace # <<>> /\ trace[1] # "trim" /\ runLogs # <<>>

\* --------------------------------------------------------------- audit log
IsPrefix(a, b) == Len(a) <= Len(b) /\ SubSeq(b, 1, Len(a)) = a

C8_InputUnmodified ==
  [][(Len(originalData) > 0 /\ Len(originalData') > 0) => originalData' = originalData]_vars

\* a run has produced a table that differs from the uploaded one
C8_Witness ==
  /\ hasData /\ pc # "idle" /\ ~orphan /\ Len(trace) >= 2
  /\ Plain(processedData) # Plain(originalData)

\* ------------------------------------------------------------ yield points
RECURSIVE EncodedThrough(_, _, _, _, _)
\* the table with the first k selected columns encoded
EncodedThrough(data, cols, k, method, targetColumn) ==
  IF k = 0 THEN data
  ELSE EncodeColumn(EncodedThrough(data, cols, k - 1, method, targetColumn), cols[k], method,
                    targetColumn).data

\* the running pair is the complete output of the last executed stage
AtStageBoundary == Pair(processedData, currentColumns) = done

\* between two columns of categorical encoding: the first columns are
\* encoded, the column list is the one before the stage
InsideEncoding ==
  /\ pc = "encoding" /\ phase \in 1..(Len(cfg.encodingColumns) - 1)
  /\ currentColumns = done.columns
  /\ Plain(processedData)
       = Plain(EncodedThrough(Rows(done.data), cfg.encodingColumns, phase, cfg.encodingMethod,
                              cfg.targetColumn))

\* between the transform and the scaler of scaling: transformed, not scaled
InsideScaling ==
  /\ pc = "scaling" /\ phase = 1 /\ cfg.scalingTransform \in {"log", "sqrt"}
  /\ currentColumns = done.columns
  /\ Plain(processedData)
       = Plain(TransformStep(Rows(done.data), cfg.scalingColumns, cfg.scalingTransform).data)

\* C9 as stated: at every yield point of a run the running (data, columns)
\* pair is the complete output of the last executed stage
C9_YieldsBetweenStages == pc # "idle" => AtStageBoundary

\* C9: at every yield point of a run the running (data, columns) pair is
\* the complete output of the last executed stage, or the run is between
\* two columns of categorical encoding, or between the transform and the
\* scaler of scaling
C9_YieldsBetweenOperations ==
  pc # "idle" => AtStageBoundary \/ InsideEncoding \/ InsideScaling

\* a yield after the first of two encoded columns
C9_Witness ==
  /\ pc = "encoding" /\ phase = 1 /\ ~AtStageBoundary
  /\ Len(trace) >= 2

\* ------------------------------------------- removeDuplicates as a function
MaxFnRows == 3
FnColumns == << <<"a">>, <<"b">> >>
FnCells == {Null, Whole(1), Str(<<"1">>)}
FnRows == [DOMAIN FnColumns -> FnCells]
FnTables == UNION {[1..n -> FnRows] : n \in 0..MaxFnRows}
FnColumnLists == {FnColumns, SubSeq(FnColumns, 1, 1)}

\* a table and a column list to call removeDuplicates with
FnInit ==
  /\ PageInit
  /\ fnInput \in {[data |-> Upload(FnColumns, rows), columns |-> cols] :
                    rows \in FnTables, cols \in FnColumnLists}
  /\ fnOnce = <<>> /\ fnTwice = <<>>

\* removeDuplicates(data, columns)
DedupeOnce ==
  /\ fnInput # <<>> /\ fnOnce = <<>>
  /\ fnOnce' = removeDuplicates(fnInput.data, fnInput.columns)
  /\ UNCHANGED <<indexVars, componentVars, runVars, historyVars, fnInput, fnTwice>>

\* removeDuplicates(removeDuplicates(data, columns).data, columns)
DedupeTwice ==
  /\ fnOnce # <<>> /\ fnTwice = <<>>
  /\ fnTwice' = removeDuplicates(fnOnce.data, fnInput.columns)
  /\ UNCHANGED <<indexVars, componentVars, runVars, historyVars, fnInput, fnOnce>>

FnNext == DedupeOnce \/ DedupeTwice

FnSpec == FnInit /\ [][FnNext]_vars

\* C10: exact duplicate removal is idempotent: removeDuplicates applied to
\* its own output returns the same row objects in the same order, removes
\* nothing and logs nothing
C10_DedupeIdempotent ==
  fnTwice # <<>> => fnTwice.data = fnOnce.data /\ fnTwice.logs = <<>>

\* a second application after a first one that removed rows
C10_Witness ==
  /\ fnTwice # <<>>
  /\ Len(fnOnce.data) < Len(fnInput.data)
  /\ fnOnce.logs # <<>>

\* ------------------------------------------------- removeDuplicates, row by row
\* the tuple of stringified values of a row over the columns
StringTuple(row, cols) == [i \in DOMAIN cols |-> JsonStringify(Cell(row, cols[i]))]
\* the rows whose tuple has not occurred in an earlier row
FirstOccurrences(data, cols) ==
  {r \in DOMAIN data : \A q \in 1..(r - 1) : StringTuple(data[q], cols) # StringTuple(data[r], cols)}

\* C11: removeDuplicates keeps exactly the rows whose tuple of stringified
\* values has not occurred in an earlier row, in their original order, and
\* logs one entry with the number of dropped rows when rows were dropped,
\* none otherwise
C11_FirstOccurrenceKept ==
  fnOnce # <<>> =>
    LET first == FirstOccurrences(fnInput.data, fnInput.columns)
        d == Len(fnInput.data) - Cardinality(first)
    IN /\ fnOnce.data = FilterSeq(fnInput.data, first)
       /\ d > 0 => Len(fnOnce.logs) = 1 /\ fnOnce.logs[1].rowsAffected = d
       /\ d = 0 => fnOnce.logs = <<>>

\* a duplicate of the first row was dropped from behind a different row
C11_Witness ==
  /\ fnOnce # <<>> /\ Len(fnInput.data) = 3 /\ Len(fnOnce.data) = 2
  /\ 3 \notin FirstOccurrences(fnInput.data, fnInput.columns)
  /\ StringTuple(fnInput.data[3], fnInput.columns) = StringTuple(fnInput.data[1], fnInput.columns)

\* --------------------------------------------- removeNearDuplicates as a function
NearCells ==
  << {Null, Whole(100), Whole(101)}, {Str(<<"a", "b">>), Str(<<"A", "b">>), Str(<<"b">>)} >>
NearRows == {row \in [DOMAIN FnColumns -> UNION Range(NearCells)] :
               \A i \in DOMAIN FnColumns : row[i] \in NearCells[i]}
NearTables == UNION {[1..n -> NearRows] : n \in 0..MaxFnRows}
\* the column lists of a call, the rows holding these keys: both columns,
\* one, or none (rows without keys, as after the removal of every column)
NearColumnLists == {FnColumns, SubSeq(FnColumns, 1, 1), <<>>}
NearTolerances == {(90 * Unit) \div 100, nearDuplicateTolerance}

\* a table, a column list and a tolerance to call removeNearDuplicates with
NearInit ==
  /\ PageInit
  /\ fnInput \in {[data |-> Upload(cols, rows), columns |-> cols, tolerance |-> t] :
                    rows \in NearTables, cols \in NearColumnLists, t \in NearTolerances}
  /\ fnOnce = <<>> /\ fnTwice = <<>>

\* removeNearDuplicates(data, columns, tolerance)
NearDedupeOnce ==
  /\ fnInput # <<>> /\ fnOnce = <<>>
  /\ fnOnce' = removeNearDuplicates(fnInput.data, fnInput.columns, fnInput.tolerance)
  /\ UNCHANGED <<indexVars, componentVars, runVars, historyVars, fnInput, fnTwice>>

NearNext == NearDedupeOnce

NearSpec == NearInit /\ [][NearNext]_vars

\* the similarity of rows q and r of the input
InputSimilarity(q, r) == calculateRowSimilarity(fnInput.data[r], fnInput.data[q], fnInput.columns)
\* the set of accepted rows: a row is accepted exactly when no row accepted
\* before it is as similar as the tolerance
Accepted(S) ==
  \A r \in DOMAIN fnInput.data :
    r \in S <=> ~ \E q \in S : q < r /\ InputSimilarity(q, r) >= fnInput.tolerance

\* C12: removeNearDuplicates drops a row exactly when its similarity to a
\* previously accepted row meets or exceeds the tolerance, so the first row
\* is kept and every kept row is strictly below the tolerance to every row
\* kept before it, the similarity lying between 0 and 1
C12_NearDuplicatesDropped ==
  fnOnce # <<>> =>
    \E S \in SUBSET DOMAIN fnInput.data :
      /\ Accepted(S)
      /\ fnOnce.data = FilterSeq(fnInput.data, S)
      /\ fnInput.data # <<>> => 1 \in S
      /\ \A q, r \in S : q < r =>
            /\ InputSimilarity(q, r) < fnInput.tolerance
            /\ InputSimilarity(q, r) \in 0..Unit

\* the same, for a call with at least one column
C12_NearDuplicatesDroppedOverColumns ==
  fnInput # <<>> /\ fnInput.columns # <<>> => C12_NearDuplicatesDropped

\* ------------------------------------- handleMissingValues (fill) as a function
FillCells ==
  << {Null, Str(<<>>), Whole(1), Whole(3)}, {Null, Str(<<"x">>), Str(<<"o", "t", "h", "e", "r">>)} >>
FillRows == {row \in [DOMAIN FnColumns -> UNION Range(FillCells)] :
               \A i \in DOMAIN FnColumns : row[i] \in FillCells[i]}
FillTables == UNION {[1..n -> FillRows] : n \in 0..MaxFnRows}
\* the strategies that fill with a statistic or a constant, and the constants
FillCalls ==
  {[strategy |-> st, constantValue |-> Undef] : st \in {"mean", "median", "mode", "constant"}}
    \cup {[strategy |-> "constant", constantValue |-> c] : c \in {Str(<<>>), Whole(0), Str(<<"x">>)}}

\* a table with its statistics, as the callers compute them, and a strategy
FillInit ==
  /\ PageInit
  /\ fnInput \in {[data |-> Upload(FnColumns, rows), columns |-> FnColumns,
                    columnStats |-> analyzeColumns(Upload(FnColumns, rows), FnColumns),
                    strategy |-> call.strategy, constantValue |-> call.constantValue] :
                    rows \in FillTables, call \in FillCalls}
  /\ fnOnce = <<>> /\ fnTwice = <<>>

\* handleMissingValues(data, columns, columnStats, strategy, constantValue)
FillOnce ==
  /\ fnInput # <<>> /\ fnOnce = <<>>
  /\ fnOnce' = handleMissingValues(fnInput.data, fnInput.columns, fnInput.columnStats,
                                   fnInput.strategy, fnInput.constantValue, Undef)
  /\ UNCHANGED <<indexVars, componentVars, runVars, historyVars, fnInput, fnTwice>>

FillNext == FillOnce

FillSpec == FillInit /\ [][FillNext]_vars

\* the missing cells of a column
MissingIn(data, col) == {r \in DOMAIN data : IsMissing(Cell(data[r], col))}
\* the fill value of a column of the call
FillValueOf(col) == FillValue(FindStats(fnInput.columnStats, col), fnInput.strategy, fnInput.constantValue)

\* C13: after a fill with mean, median, mode or a constant every column has
\* no missing cell, unless its fill value was rejected as null or empty:
\* then no cell of the column changes and no log entry names the column
C13_FilledOrSkipped ==
  fnOnce # <<>> =>
    \A i \in DOMAIN fnInput.columns :
      LET col == fnInput.columns[i]
      IN IF IsMissing(FillValueOf(col))
         THEN /\ Column(fnOnce.data, col) = Column(fnInput.data, col)
              /\ \A l \in DOMAIN fnOnce.logs : fnOnce.logs[l].column # col
         ELSE MissingIn(fnOnce.data, col) = {}

\* a mean fill that filled the numeric column, empty strings included, and
\* skipped the string column, which keeps its missing cells
C13_Witness ==
  /\ fnOnce # <<>> /\ fnInput.strategy = "mean"
  /\ \E r \in MissingIn(fnInput.data, FnColumns[1]) : Cell(fnInput.data[r], FnColumns[1]) = Str(<<>>)
  /\ MissingIn(fnOnce.data, FnColumns[1]) = {}
  /\ MissingIn(fnOnce.data, FnColumns[2]) # {}
  /\ Len(fnOnce.logs) = 1

\* --------------------------------------- removeOutliers (iqr, cap) as a function
MaxCapRows == 5
CapCells == << {Null, Whole(10), Whole(11), Whole(12), Whole(13), Whole(100)}, {Str(<<"x">>)} >>
CapRows == {row \in [DOMAIN FnColumns -> UNION Range(CapCells)] :
              \A i \in DOMAIN FnColumns : row[i] \in CapCells[i]}
CapTables == UNION {[1..n -> CapRows] : n \in 0..MaxCapRows}
CapThresholds == {defaultOutlierThreshold, Unit}

\* a table with its statistics, as the callers compute them, and a threshold
CapInit ==
  /\ PageInit
  /\ fnInput \in {[data |-> Upload(FnColumns, rows), columns |-> FnColumns,
                    columnStats |-> analyzeColumns(Upload(FnColumns, rows), FnColumns),
                    threshold |-> k] :
                    rows \in CapTables, k \in CapThresholds}
  /\ fnOnce = <<>> /\ fnTwice = <<>>

\* removeOutliers(data, columns, columnStats, 'iqr', 'cap', threshold)
CapOnce ==
  /\ fnInput # <<>> /\ fnOnce = <<>>
  /\ fnOnce' = removeOutliers(fnInput.data, fnInput.columns, fnInput.columnStats, "iqr", "cap",
                              fnInput.threshold)
  /\ UNCHANGED <<indexVars, componentVars, runVars, historyVars, fnInput, fnTwice>>

CapNext == CapOnce

CapSpec == CapInit /\ [][CapNext]_vars

\* the element at floor(n * num / 4) of the ascending sort (index from 0)
QuartileAt(nums, num) == SortNums(nums)[(Len(nums) * num) \div 4 + 1]
\* x lies in [Q1 - k*IQR, Q3 + k*IQR], all in units of 1/Unit, k = threshold/Unit
WithinFences(x, nums, threshold) ==
  LET q1 == QuartileAt(nums, 1)
      q3 == QuartileAt(nums, 3)
  IN /\ x * Unit >= q1 * Unit - threshold * (q3 - q1)
     /\ x * Unit <= q3 * Unit + threshold * (q3 - q1)

\* C14: after capping by IQR with threshold k on the statistics of the same
\* table, every number of every numeric column lies within
\* [Q1 - k*IQR, Q3 + k*IQR], Q1 and Q3 taken at floor(n*0.25) and
\* floor(n*0.75) of the ascending sort, and the values that were inside are
\* unchanged
C14_CappedWithinFences ==
  fnOnce # <<>> =>
    /\ Len(fnOnce.data) = Len(fnInput.data)
    /\ \A i \in DOMAIN fnInput.columns :
         LET col == fnInput.columns[i]
             nums == Numbers(Column(fnInput.data, col))
         IN \A r \in DOMAIN fnInput.data :
              LET old == Cell(fnInput.data[r], col)
                  new == Cell(fnOnce.data[r], col)
              IN IF IsNumber(old)
                 THEN /\ IsNumber(new) /\ WithinFences(new.n, nums, fnInput.threshold)
                      /\ WithinFences(old.n, nums, fnInput.threshold) => new = old
                 ELSE new = old

\* the column 10, 12, 11, 13, 100 capped with k = 1.5: 100 becomes 16
C14_Witness ==
  /\ fnOnce # <<>> /\ fnInput.threshold = defaultOutlierThreshold
  /\ Column(fnInput.data, FnColumns[1]) = <<Whole(10), Whole(12), Whole(11), Whole(13), Whole(100)>>
  /\ Column(fnOnce.data, FnColumns[1]) = <<Whole(10), Whole(12), Whole(11), Whole(13), Whole(16)>>

\* ------------------------------------------------- oneHotEncode as a function
\* the encoded column holds strings (one of them empty, as trimming leaves a
\* blank string), a number and nulls
OneHotCells ==
  << {Null, Str(<<>>), Str(<<"x">>), Str(<<"y">>), Whole(1)}, {Whole(1)} >>
OneHotRows == {row \in [DOMAIN FnColumns -> UNION Range(OneHotCells)] :
                 \A i \in DOMAIN FnColumns : row[i] \in OneHotCells[i]}
OneHotTables == UNION {[1..n -> OneHotRows] : n \in 0..MaxFnRows}

\* a table whose first column is to be encoded
OneHotInit ==
  /\ PageInit
  /\ fnInput \in {[data |-> Upload(FnColumns, rows), column |-> FnColumns[1]] : rows \in OneHotTables}
  /\ fnOnce = <<>> /\ fnTwice = <<>>

\* oneHotEncode(data, column, false)
OneHotOnce ==
  /\ fnInput # <<>> /\ fnOnce = <<>>
  /\ fnOnce' = oneHotEncode(fnInput.data, fnInput.column, FALSE)
  /\ UNCHANGED <<indexVars, componentVars, runVars, historyVars, fnInput, fnTwice>>

OneHotNext == OneHotOnce

OneHotSpec == OneHotInit /\ [][OneHotNext]_vars

\* the indicator columns of a row that are set
ActiveIndicators(row, indicators) == {c \in indicators : Cell(row, c) = Whole(1)}
\* every indicator of the row is 0 or 1 and those set are exactly `active`
IndicatorsAre(row, indicators, active) ==
  /\ \A c \in indicators : Cell(row, c) \in {Whole(0), Whole(1)}
  /\ ActiveIndicators(row, indicators) = active

\* C15: after one-hot encoding, the indicators of a row sum to 1 when the
\* row's original value was not missing, the one set being the indicator
\* named after that value, and to 0 when it was missing (null or absent)
C15_OneIndicatorPerValue ==
  fnOnce # <<>> =>
    \A r \in DOMAIN fnInput.data :
      LET old == Cell(fnInput.data[r], fnInput.column)
      IN IndicatorsAre(fnOnce.data[r], Range(fnOnce.newColumns),
                       IF IsNullish(old) THEN {} ELSE {fnInput.column \o Us \o StringOf(old)})

\* the same for a column without an empty string
C15_OneIndicatorPerNonEmptyValue ==
  (fnInput # <<>> /\ \A r \in DOMAIN fnInput.data : Cell(fnInput.data[r], fnInput.column) # Str(<<>>))
    => C15_OneIndicatorPerValue

\* ------------------------------------------------ scaling and its inverse
\* value * std + mean, or value * (max - min) + min, with the stored
\* parameters; a robust scaler stores neither pair and leaves the value
InverseValue(scaler, col, value) ==
  LET p == scaler.params[col]
  IN CASE scaler.method = "standard" ->
            IF p.nan \/ value.t = "nan" THEN NaN
            ELSE Num(RoundDiv(value.n * p.std, Unit) + p.mean)
       [] scaler.method = "minmax" ->
            IF p.nan \/ value.t = "nan" THEN NaN
            ELSE Num(RoundDiv(value.n * (p.max - p.min), Unit) + p.min)
       [] OTHER -> value

inverseScale(data, scaler) ==
  [r \in DOMAIN data |->
     LET numeric == FilterSeq(scaler.columns,
                              {i \in DOMAIN scaler.columns :
                                 IsNumber(Cell(data[r], scaler.columns[i]))})
     IN Fresh(PutSeq(data[r].obj, numeric,
                     [i \in DOMAIN numeric |->
                        InverseValue(scaler, numeric[i], Cell(data[r], numeric[i]))]))]

\* the tables scaled: numbers apart and equal, missing cells, and a second
\* column that is constant or text
ScaleCells == << {Null, Whole(1), Whole(2), Whole(4)}, {Whole(5), Str(<<"x">>)} >>
ScaleRows == {row \in [DOMAIN FnColumns -> UNION Range(ScaleCells)] :
                \A i \in DOMAIN FnColumns : row[i] \in ScaleCells[i]}
ScaleTables == UNION {[1..n -> ScaleRows] : n \in 0..MaxFnRows}
\* the calls made: the method and, for min-max, the target range
ScaleCalls == { [method |-> "standard", featureRange |-> defaultFeatureRange],
                [method |-> "minmax", featureRange |-> defaultFeatureRange],
                [method |-> "minmax", featureRange |-> <<-Unit, Unit>>] }

ScaleInit ==
  /\ PageInit
  /\ fnInput \in {[data |-> Upload(FnColumns, rows), call |-> call] :
                    rows \in ScaleTables, call \in ScaleCalls}
  /\ fnOnce = <<>>
  /\ fnTwice = <<>>

\* standardScale(data, columns) or minMaxScale(data, columns, [], featureRange)
ScaleOnce ==
  /\ fnInput # <<>> /\ fnOnce = <<>>
  /\ fnOnce' = IF fnInput.call.method = "standard"
                THEN standardScale(fnInput.data, FnColumns)
                ELSE minMaxScale(fnInput.data, FnColumns, fnInput.call.featureRange)
  /\ UNCHANGED <<indexVars, componentVars, runVars, historyVars, fnInput, fnTwice>>

\* inverseScale(scaled.data, scaled.scaler)
InverseOnce ==
  /\ fnOnce # <<>> /\ fnTwice = <<>>
  /\ fnTwice' = [data |-> inverseScale(fnOnce.data, fnOnce.scaler)]
  /\ UNCHANGED <<indexVars, componentVars, runVars, historyVars, fnInput, fnOnce>>

ScaleNext == ScaleOnce \/ InverseOnce

ScaleSpec == ScaleInit /\ [][ScaleNext]_vars

\* the spread of a scaled column: its std, or its max - min
Spread(scaler, col) ==
  IF scaler.method = "standard" THEN scaler.params[col].std
  ELSE scaler.params[col].max - scaler.params[col].min

\* the rounding of a scaled value to 1/Unit, carried back through the
\* multiplication by the spread, and the rounding of the product
Tolerance(scaler, col) == (Spread(scaler, col) \div Unit) + 1

\* every number of the scaled columns is back within the tolerance
RoundTrips ==
  \A col \in Range(fnOnce.scaler.columns) : \A r \in DOMAIN fnInput.data :
    Cell(fnInput.data[r], col).t = "num" =>
      /\ Cell(fnTwice.data[r], col).t = "num"
      /\ Abs(Cell(fnTwice.data[r], col).n - Cell(fnInput.data[r], col).n)
           <= Tolerance(fnOnce.scaler, col)

\* C16: inverseScale of the scaled table gives every original number back
\* within tolerance, for the standard and the min-max scaler, for columns of
\* zero variance or zero range, and for a non-default min-max target range
C16_InverseRecovers == fnTwice # <<>> => RoundTrips

\* the same with the default target range [0, 1], which inverseScale assumes
C16_InverseRecoversDefaultRange ==
  (fnTwice # <<>> /\ fnInput.call.featureRange = defaultFeatureRange) => RoundTrips

\* a zero-range column under a non-default target range also comes back
C16_ZeroRangeRecovers ==
  (fnTwice # <<>> /\ fnInput.call.method = "minmax") =>
    \A col \in Range(fnOnce.scaler.columns) : \A r \in DOMAIN fnInput.data :
      (Spread(fnOnce.scaler, col) = 0 /\ Cell(fnInput.data[r], col).t = "num") =>
        Cell(fnTwice.data[r], col) = Cell(fnInput.data[r], col)

\* ------------------------------------------------------ CSV text and back
\* value.replace(/"/g, '""') between quotes when the value holds a comma, a
\* double quote or a newline
escapeCSVValue(value) ==
  IF Contains(value, ",") \/ Contains(value, "\"") \/ Contains(value, "\n")
  THEN <<"\"">>
         \o Flatten([i \in DOMAIN value |->
                       IF value[i] = "\"" THEN <<"\"", "\"">> ELSE <<value[i]>>])
         \o <<"\"">>
  ELSE value

\* [header, ...rows].join('\n')
dataToCSV(data, cols) ==
  LET header == Join([i \in DOMAIN cols |-> escapeCSVValue(cols[i])], <<",">>)
      rows == [r \in DOMAIN data |->
                 Join([i \in DOMAIN cols |->
                         LET value == Cell(data[r], cols[i])
                         IN IF IsNullish(value) THEN <<>>
                            ELSE escapeCSVValue(StringOf(value))], <<",">>)]
  IN Join(<<header>> \o rows, <<"\n">>)

RECURSIVE SplitLines(_)
\* text.split(/\r?\n/)
SplitLines(text) ==
  IF ~Contains(text, "\n") THEN <<text>>
  ELSE LET i == IndexOf(text, "\n")
           line == SubSeq(text, 1, i - 1)
       IN << IF line # <<>> /\ line[Len(line)] = "\r"
             THEN SubSeq(line, 1, Len(line) - 1) ELSE line >>
            \o SplitLines(SubSeq(text, i + 1, Len(text)))

RECURSIVE ParseFrom(_, _, _, _, _)
\* the loop of parseCSVLine from position i
ParseFrom(line, i, current, inQuotes, result) ==
  IF i > Len(line) THEN Append(result, current)
  ELSE LET char == line[i]
           nextChar == IF i + 1 <= Len(line) THEN line[i + 1] ELSE ""
       IN IF inQuotes
          THEN IF char = "\"" /\ nextChar = "\""
               THEN ParseFrom(line, i + 2, Append(current, "\""), TRUE, result)
               ELSE IF char = "\"" THEN ParseFrom(line, i + 1, current, FALSE, result)
               ELSE ParseFrom(line, i + 1, Append(current, char), TRUE, result)
          ELSE IF char = "\"" THEN ParseFrom(line, i + 1, current, TRUE, result)
               ELSE IF char = "," THEN ParseFrom(line, i + 1, <<>>, FALSE, Append(result, current))
               ELSE ParseFrom(line, i + 1, Append(current, char), FALSE, result)

parseCSVLine(line) == ParseFrom(line, 1, <<>>, FALSE, <<>>)

RECURSIVE DigitsValue(_)
DigitsValue(ds) ==
  IF ds = <<>> THEN 0
  ELSE DigitsValue(SubSeq(ds, 1, Len(ds) - 1)) * 10 + (IndexOf(DigitChars, ds[Len(ds)]) - 1)

\* Number(value) of a trimmed, non-empty string written as a sign, digits
\* and at most one point; any other text is NaN
NumberOf(value) ==
  LET signed == value[1] \in {"-", "+"}
      body == IF signed THEN Tail(value) ELSE value
      points == {i \in DOMAIN body : body[i] = "."}
      point == IF points = {} THEN Len(body) + 1 ELSE CHOOSE i \in points : TRUE
      whole == SubSeq(body, 1, point - 1)
      frac == SubSeq(body, point + 1, Len(body))
      cents == SubSeq(frac \o <<"0", "0">>, 1, 2)
  IN IF /\ \A i \in DOMAIN body : IsDigit(body[i]) \/ body[i] = "."
        /\ Cardinality(points) <= 1
        /\ Len(whole) + Len(frac) > 0
     THEN Num((IF value[1] = "-" THEN -1 ELSE 1)
               * (DigitsValue(whole) * Unit + DigitsValue(cents)))
     ELSE NaN

\* the words parseCSV reads as a missing cell
csvNullWords == { <<"n","u","l","l">>, <<"n","a">>, <<"n","/","a">>, <<"n","a","n">>,
                  <<"n","o","n","e">> }

\* the value of a field: null, a number, or the trimmed text
CsvCell(field) ==
  LET value == Trim(field)
  IN IF value = <<>> \/ ToLowerCase(value) \in csvNullWords THEN Null
     ELSE IF NumberOf(value).t = "num" THEN NumberOf(value)
     ELSE Str(value)

parseCSV(text) ==
  LET lines == SplitLines(Trim(text))
      header == parseCSVLine(lines[1])
      cols == [i \in DOMAIN header |-> Trim(header[i])]
      kept == FilterSeq(lines, {i \in DOMAIN lines : i > 1 /\ Trim(lines[i]) # <<>>})
  IN [ data |-> [r \in DOMAIN kept |->
                   LET values == parseCSVLine(Trim(kept[r]))
                   IN Fresh(PutSeq(<<>>, cols,
                                   [i \in DOMAIN cols |->
                                      CsvCell(IF i \in DOMAIN values THEN values[i] ELSE <<>>)]))],
       columns |-> cols ]

\* the tables written: names and cells with a comma, a double quote and a
\* newline, missing cells, and text that reads as a number
CsvColumnLists == { << <<"a">> >>,
                    << <<"a">>, <<"b", ",", "c">> >>,
                    << <<"q", "\"", "r">>, <<"a">> >>,
                    << <<"n", "\n", "m">>, <<"a">> >> }
CsvCells == << {Null, Str(<<"x", ",", "y">>), Str(<<"\"", "x">>), Str(<<"x", "\n", "y">>),
                Str(<<"1">>), Whole(1)},
               {Null, Undef, Str(<<"x">>)} >>
CsvRows == {row \in [1..2 -> UNION Range(CsvCells)] : \A i \in 1..2 : row[i] \in CsvCells[i]}
CsvTables == UNION {[1..n -> CsvRows] : n \in 0..MaxFnRows}

CsvInit ==
  /\ PageInit
  /\ fnInput \in {[data |-> Upload(cols, rows), columns |-> cols] :
                    cols \in CsvColumnLists, rows \in CsvTables}
  /\ fnOnce = <<>>
  /\ fnTwice = <<>>

\* parseCSV(dataToCSV(data, columns))
CsvOnce ==
  /\ fnInput # <<>> /\ fnOnce = <<>>
  /\ fnOnce' = parseCSV(dataToCSV(fnInput.data, fnInput.columns))
  /\ UNCHANGED <<indexVars, componentVars, runVars, historyVars, fnInput, fnTwice>>

CsvNext == CsvOnce

CsvSpec == CsvInit /\ [][CsvNext]_vars

\* the table read back has the names, the number of rows, the string cells
\* and the missing cells of the table written
SameTable ==
  /\ fnOnce.columns = fnInput.columns
  /\ Len(fnOnce.data) = Len(fnInput.data)
  /\ \A r \in DOMAIN fnInput.data : \A i \in DOMAIN fnInput.columns :
       LET written == Cell(fnInput.data[r], fnInput.columns[i])
           read == Cell(fnOnce.data[r], fnInput.columns[i])
       IN /\ written.t = "str" => read = written
          /\ IsNullish(written) => read = Null

\* C17: parseCSV of dataToCSV of a table gives back the column names, the
\* number of rows and the string cells, names and cells with a comma, a
\* double quote or a newline included, and reads missing cells as missing
C17_CsvRoundTrip == fnOnce # <<>> => SameTable

\* text that parseCSV keeps as it is: no newline, nothing read as a number
PlainText(text) == ~Contains(text, "\n") /\ CsvCell(text) = Str(text)

\* the same for names and string cells without a newline that do not read
\* as a number, in a table where no row is written as an empty line
C17_CsvRoundTripOneLine ==
  ( /\ fnOnce # <<>>
    /\ \A i \in DOMAIN fnInput.columns : PlainText(fnInput.columns[i])
    /\ \A r \in DOMAIN fnInput.data :
         /\ \A i \in DOMAIN fnInput.columns :
              Cell(fnInput.data[r], fnInput.columns[i]).t = "str" =>
                PlainText(Cell(fnInput.data[r], fnInput.columns[i]).s)
         /\ \E i \in DOMAIN fnInput.columns :
              Len(fnInput.columns) > 1 \/ ~IsNullish(Cell(fnInput.data[r], fnInput.columns[i])) )
  => SameTable

\* a cell with a comma and a double quote has come back unchanged
C17_QuotedCellBack ==
  /\ fnOnce # <<>>
  /\ fnOnce.columns = << <<"a">>, <<"b", ",", "c">> >>
  /\ \E r \in DOMAIN fnOnce.data :
       /\ Cell(fnInput.data[r], <<"a">>) = Str(<<"\"", "x">>)
       /\ Cell(fnOnce.data[r], <<"a">>) = Str(<<"\"", "x">>)

\* ------------------------------------------------------------ ML readiness
\* a ValidationIssue: its type and its suggestion ("" for none); the
\* message and the column it names are left out
Issue(type, suggestion) == [type |-> type, suggestion |-> suggestion]

\* s.includes(pattern)
Includes(s, pattern) ==
  \E i \in 1..(Len(s) + 1) :
    i + Len(pattern) - 1 <= Len(s) /\ SubSeq(s, i, i + Len(pattern) - 1) = pattern

engineeredPatterns ==
  { <<"_","b","i","n","n","e","d">>,
    <<"_","l","a","g","_">>,
    <<"_","r","o","l","l","i","n","g","_">>,
    <<"_","m","e","a","n">>,
    <<"_","s","u","m">>,
    <<"_","s","t","d">>,
    <<"_","m","i","n">>,
    <<"_","m","a","x">>,
    <<"_","c","o","u","n","t">>,
    <<"_","d","i","f","f">>,
    <<"_","p","c","t">> }

\* the counts of the values of the target: Object.values(classDistribution)
ClassCounts(data, targetColumn, withNull) ==
  LET vals == Column(data, targetColumn)
      keyOf(v) == IF IsNullish(v) THEN <<"n","u","l","l">> ELSE StringOf(v)
      counted == FilterSeq(vals, {i \in DOMAIN vals : withNull \/ ~IsNullish(vals[i])})
      keys == Distinct([i \in DOMAIN counted |-> keyOf(counted[i])])
  IN [k \in DOMAIN keys |-> Cardinality({i \in DOMAIN counted : keyOf(counted[i]) = keys[k]})]

\* maxCount / minCount > ratio; no counts give NaN, which compares false
RatioAbove(counts, ratio) ==
  /\ counts # <<>>
  /\ SortNums(counts)[Len(counts)] > ratio * SortNums(counts)[1]

validateTarget(data, targetColumn, stats) ==
  IF ~HasStats(stats, targetColumn) THEN <<Issue("error", "")>>
  ELSE LET target == FindStats(stats, targetColumn)
           counts == ClassCounts(data, targetColumn, FALSE)
       IN (IF target.missingCount > 0
           THEN <<Issue("error", "Remove rows with missing target values")>> ELSE <<>>)
          \o (IF target.type # "number" \/ target.uniqueCount <= 20
              THEN IF RatioAbove(counts, 10)
                   THEN <<Issue("warning", "Consider using SMOTE, undersampling, or class weights")>>
                   ELSE IF RatioAbove(counts, 3)
                   THEN <<Issue("warning", "Consider using stratified splitting and class weights")>>
                   ELSE <<>>
              ELSE <<>>)
          \o (IF Len(data) < 100
              THEN <<Issue("warning", "Consider collecting more data for reliable ML models")>>
              ELSE <<>>)

\* the signs of prepared data
IsScaledStats(st) ==
  /\ st.min # Undef /\ st.max # Undef
  /\ \/ st.min.n >= -(Unit \div 10) /\ st.max.n <= (11 * Unit) \div 10
     \/ /\ st.min.n >= -((35 * Unit) \div 10) /\ st.max.n <= (35 * Unit) \div 10
        /\ st.mean # Undef /\ Abs(st.mean.n) < Unit

isLikelyScaled(stats) ==
  LET numericStats == FilterSeq(stats, {i \in DOMAIN stats : stats[i].type = "number"})
      scaledCount == Cardinality({i \in DOMAIN numericStats : IsScaledStats(numericStats[i])})
  IN Len(numericStats) >= 2 /\ 10 * scaledCount >= 7 * Len(numericStats)

hasOneHotEncoding(cols, stats) ==
  LET binaryColumnCount ==
        Cardinality({i \in DOMAIN stats : stats[i].type = "number" /\ stats[i].uniqueCount = 2})
  IN binaryColumnCount >= 5 \/ (Len(cols) > 5 /\ 10 * binaryColumnCount > 3 * Len(cols))

hasNoCategoricals(cols, stats) ==
  (\A i \in DOMAIN stats : stats[i].type = "number") /\ Len(cols) > 3

isProcessedData(cols, stats) ==
  \/ \E i \in DOMAIN cols : \E pattern \in engineeredPatterns : Includes(cols[i], pattern)
  \/ isLikelyScaled(stats) /\ hasOneHotEncoding(cols, stats)
  \/ hasNoCategoricals(cols, stats)

\* an issue list with the penalty it costs
Scored(issues, penalty) == [issues |-> issues, penalty |-> penalty]

\* the issues of a list of scored checks in order, and their penalties added
Total(checks) ==
  Scored(Flatten([i \in DOMAIN checks |-> checks[i].issues]),
         SeqSum([i \in DOMAIN checks |-> checks[i].penalty]))

\* lenient scoring of prepared data: empty and mostly empty columns, a
\* severe imbalance of a categorical target, then the positive feedback
ProcessedChecks(data, cols, stats, targetColumn) ==
  [i \in DOMAIN stats |->
     IF stats[i].missingPercentage = 100 * Unit
     THEN Scored(<<Issue("error", "Remove this column")>>, 15)
     ELSE IF stats[i].missingPercentage > 50 * Unit THEN Scored(<<Issue("warning", "")>>, 5)
     ELSE Scored(<<>>, 0)]
  \o << IF /\ targetColumn # <<>> /\ HasStats(stats, targetColumn)
           /\ FindStats(stats, targetColumn).type # "number"
           /\ Len(ClassCounts(data, targetColumn, TRUE)) > 1
           /\ RatioAbove(ClassCounts(data, targetColumn, TRUE), 20)
        THEN Scored(<<Issue("warning", "Use class weights or resampling")>>, 5)
        ELSE Scored(<<>>, 0),
        Scored((IF \A i \in DOMAIN stats : stats[i].missingCount = 0
                THEN <<Issue("success", "")>> ELSE <<>>)
               \o (IF hasOneHotEncoding(cols, stats) THEN <<Issue("success", "")>> ELSE <<>>)
               \o (IF isLikelyScaled(stats) THEN <<Issue("success", "")>> ELSE <<>>)
               \o (IF hasNoCategoricals(cols, stats) THEN <<Issue("success", "")>> ELSE <<>>),
               0) >>

\* the rows of a numeric column outside q1 - 1.5 iqr .. q3 + 1.5 iqr
OutliersOf(data, st) ==
  LET iqr == st.q3.n - st.q1.n
  IN Cardinality({r \in DOMAIN data :
                    LET value == Cell(data[r], st.name)
                    IN value.t = "num" /\ (2 * value.n < 2 * st.q1.n - 3 * iqr
                                           \/ 2 * value.n > 2 * st.q3.n + 3 * iqr)})

\* duplicates++ for every row whose key was seen
DuplicatesOf(data, cols) == Len(data) - Len(DedupeScan(data, cols, {}, <<>>))

\* strict scoring of raw data, check by check in the order of the code
RawChecks(data, cols, stats, targetColumn) ==
  LET others == FilterSeq(stats, {i \in DOMAIN stats : stats[i].name # targetColumn})
      duplicates == DuplicatesOf(data, cols)
      unscaledNumericCount ==
        Cardinality({i \in DOMAIN others :
                       /\ others[i].type = "number"
                       /\ others[i].max # Undef /\ others[i].min # Undef
                       /\ others[i].max.n - others[i].min.n > 10 * Unit})
      targetIssues == validateTarget(data, targetColumn, stats)
  IN [i \in DOMAIN others |->
        IF others[i].missingPercentage > 50 * Unit
        THEN Scored(<<Issue("warning", "Drop this column or impute values")>>, 5)
        ELSE IF others[i].missingPercentage > 10 * Unit
        THEN Scored(<<Issue("warning", "Impute missing values")>>, 3)
        ELSE IF others[i].missingPercentage > 0 THEN Scored(<<>>, 1)
        ELSE Scored(<<>>, 0)]
     \o << IF duplicates > 0
           THEN Scored(<<Issue("warning", "Remove duplicates before training")>>,
                       Min2(10, (duplicates * 100) \div Len(data)))
           ELSE Scored(<<>>, 0) >>
     \o [i \in DOMAIN others |->
           IF others[i].type = "number" THEN Scored(<<>>, 0)
           ELSE IF others[i].uniqueCount > 50
           THEN Scored(<<Issue("warning", "Apply encoding (frequency, target, or grouping)")>>, 4)
           ELSE IF others[i].uniqueCount > 1
           THEN Scored(<<Issue("info", "Use one-hot or label encoding")>>, 2)
           ELSE Scored(<<>>, 0)]
     \o << IF unscaledNumericCount > 0
           THEN Scored(<<Issue("info", "Apply standardization or min-max scaling")>>,
                       Min2(10, unscaledNumericCount * 2))
           ELSE Scored(<<>>, 0) >>
     \o [i \in DOMAIN others |->
           IF /\ others[i].type = "number" /\ others[i].q1 # Undef /\ others[i].q3 # Undef
              /\ 10 * OutliersOf(data, others[i]) > Len(data)
           THEN Scored(<<Issue("info", "Consider capping or removing outliers")>>, 2)
           ELSE Scored(<<>>, 0)]
     \o [i \in DOMAIN stats |->
           IF stats[i].uniqueCount <= 1
           THEN Scored(<<Issue("warning", "Remove this column")>>, 5)
           ELSE Scored(<<>>, 0)]
     \o << IF targetColumn # <<>>
           THEN Scored(targetIssues,
                       15 * Cardinality({i \in DOMAIN targetIssues : targetIssues[i].type = "error"})
                       + 5 * Cardinality({i \in DOMAIN targetIssues : targetIssues[i].type = "warning"}))
           ELSE Scored(<<>>, 0),
           IF Len(data) < 100
           THEN Scored(<<Issue("warning", "More data will improve model performance")>>, 5)
           ELSE Scored(<<>>, 0) >>

\* the score as the penalties leave it
UnboundedScore(score) == score

\* Math.max(0, Math.min(100, score))
BoundScore(score) == Max2(0, Min2(100, score))

\* issues.filter(i => i.suggestion).map(...).filter(unique).slice(0, 5)
Recommendations(issues) ==
  LET suggested == FilterSeq(issues, {i \in DOMAIN issues : issues[i].suggestion # ""})
      unique == Distinct([i \in DOMAIN suggested |-> suggested[i].suggestion])
  IN SubSeq(unique, 1, Min2(5, Len(unique)))

\* targetColumn is <<>> when no target was given
checkMLReadiness(data, cols, stats, targetColumn) ==
  IF Len(data) = 0
  THEN [ score |-> 0, isReady |-> FALSE,
         issues |-> <<Issue("error", "")>>,
         recommendations |-> <<"Upload a dataset">>,
         summary |-> [totalFeatures |-> 0, numericFeatures |-> 0, categoricalFeatures |-> 0,
                      duplicateRows |-> 0] ]
  ELSE LET processed == isProcessedData(cols, stats)
           total == Total(IF processed THEN ProcessedChecks(data, cols, stats, targetColumn)
                          ELSE RawChecks(data, cols, stats, targetColumn))
           score == BoundScore((IF processed THEN 95 ELSE 100) - total.penalty)
           hasErrors == \E i \in DOMAIN total.issues : total.issues[i].type = "error"
       IN [ score |-> score,
            isReady |-> ~hasErrors /\ score >= 70,
            issues |-> total.issues,
            recommendations |-> Recommendations(total.issues),
            summary |->
              [ totalFeatures |-> Len(cols) - (IF targetColumn # <<>> THEN 1 ELSE 0),
                numericFeatures |->
                  Cardinality({i \in DOMAIN stats :
                                 stats[i].type = "number" /\ stats[i].name # targetColumn}),
                categoricalFeatures |->
                  Cardinality({i \in DOMAIN stats :
                                 stats[i].type # "number" /\ stats[i].name # targetColumn}),
                duplicateRows |-> IF processed THEN 0 ELSE DuplicatesOf(data, cols) ] ]

MaxReadyColumns == 8
MaxReadyRows == 3

\* the kinds of column of the tables checked, by the cell of row r: empty,
\* constant, numbers far apart, numbers within [0, 1], text, text with a gap
ReadyKinds == {"empty", "constant", "spread", "unit", "text", "gap"}
ReadyCell(kind, r) ==
  CASE kind = "empty" -> Null
    [] kind = "constant" -> Whole(1)
    [] kind = "spread" -> Whole(20 * (r % 2) + r)
    [] kind = "unit" -> Num(((r % 3) * Unit) \div 2)
    [] kind = "text" -> Str(<<LowerChars[(r % 2) + 1]>>)
    [] kind = "gap" -> IF r = 2 THEN Null ELSE Str(<<LowerChars[r]>>)

\* up to three columns of any kinds, or a wide table of one kind
ReadyShapes ==
  UNION {[1..n -> ReadyKinds] : n \in 1..3}
    \cup {[i \in 1..n |-> kind] : n \in 4..MaxReadyColumns, kind \in ReadyKinds}

\* the column names: c1, c2, ..., the first one engineered or not
ReadyColumns(n, engineered) ==
  [i \in 1..n |-> <<"c">> \o DecStr(i)
                    \o (IF engineered /\ i = 1 THEN <<"_","m","i","n">> ELSE <<>>)]

ReadyTable(shape, rows, engineered) ==
  Upload(ReadyColumns(Len(shape), engineered),
         [r \in 1..rows |-> [i \in DOMAIN shape |-> ReadyCell(shape[i], r)]])

ReadyInit ==
  /\ PageInit
  /\ fnInput \in {[data |-> ReadyTable(shape, rows, engineered),
                   columns |-> ReadyColumns(Len(shape), engineered),
                   targetColumn |-> IF target = 0 THEN <<>>
                                    ELSE IF target = 1 THEN ReadyColumns(1, engineered)[1]
                                    ELSE <<"z">>] :
                    shape \in ReadyShapes, rows \in {0, 2, MaxReadyRows},
                    engineered \in BOOLEAN, target \in 0..2}
  /\ fnOnce = <<>>
  /\ fnTwice = <<>>

\* checkMLReadiness(data, columns, columnStats, targetColumn || undefined)
\* with the statistics of the table
ReadyOnce ==
  /\ fnInput # <<>> /\ fnOnce = <<>>
  /\ fnOnce' = checkMLReadiness(fnInput.data, fnInput.columns,
                                analyzeColumns(fnInput.data, fnInput.columns),
                                fnInput.targetColumn)
  /\ UNCHANGED <<indexVars, componentVars, runVars, historyVars, fnInput, fnTwice>>

ReadyNext == ReadyOnce

ReadySpec == ReadyInit /\ [][ReadyNext]_vars

\* C18: the score of checkMLReadiness is within 0..100, isReady holds
\* exactly when the score is at least 70 and no issue has type error, and
\* no suggestion is recommended twice
C18_ScoreReadyRecommendations ==
  fnOnce # <<>> =>
    /\ fnOnce.score \in 0..100
    /\ fnOnce.isReady <=> (fnOnce.score >= 70
                           /\ \A i \in DOMAIN fnOnce.issues : fnOnce.issues[i].type # "error")
    /\ \A i, j \in DOMAIN fnOnce.recommendations :
         fnOnce.recommendations[i] = fnOnce.recommendations[j] => i = j

\* a table of rows whose penalties exceed the starting score, with the same
\* suggestion raised for several columns and recommended once
C18_Witness ==
  /\ fnOnce # <<>>
  /\ Len(fnInput.data) > 0
  /\ fnOnce.score = 0
  /\ ~fnOnce.isReady
  /\ Cardinality({i \in DOMAIN fnOnce.issues :
                    fnOnce.issues[i].suggestion = "Remove this column"}) > 1
  /\ Cardinality({i \in DOMAIN fnOnce.recommendations :
                    fnOnce.recommendations[i] = "Remove this column"}) = 1

\* a table found ready
C18_ReadyReached == fnOnce # <<>> /\ fnOnce.isReady /\ fnOnce.score >= 70

\* --------------------------------------------------- the mode of a column
\* the columns analysed: missing cells, placeholders in both cases, a value
\* and a number
ModeCells == {Null, Str(<<>>), Str(<<"n","a">>), Str(<<"O","t","h","e","r">>),
              Str(<<"x">>), Whole(1)}
ModeTables == UNION {[1..n -> [1..1 -> ModeCells]] : n \in 0..MaxFnRows}

ModeInit ==
  /\ PageInit
  /\ fnInput \in {[data |-> Upload(<< <<"a">> >>, rows)] : rows \in ModeTables}
  /\ fnOnce = <<>>
  /\ fnTwice = <<>>

\* analyzeColumn(data, 'a')
ModeOnce ==
  /\ fnInput # <<>> /\ fnOnce = <<>>
  /\ fnOnce' = analyzeColumn(fnInput.data, <<"a">>)
  /\ UNCHANGED <<indexVars, componentVars, runVars, historyVars, fnInput, fnTwice>>

ModeNext == ModeOnce

ModeSpec == ModeInit /\ [][ModeNext]_vars

\* the placeholder strings, compared in lower case
PlaceholderStrings ==
  { <<"o","t","h","e","r">>, <<"u","n","k","n","o","w","n">>, <<"n","/","a">>, <<"n","a">>,
    <<"n","o","n","e">>, <<"m","i","s","s","i","n","g">>,
    <<"u","n","d","e","f","i","n","e","d">>,
    <<"n","o","t"," ","s","p","e","c","i","f","i","e","d">> }
IsPlaceholder(v) == v.t = "str" /\ ToLowerCase(v.s) \in PlaceholderStrings

\* the non-missing values of the analysed column
Present == LET vals == Column(fnInput.data, <<"a">>)
           IN FilterSeq(vals, {i \in DOMAIN vals : ~IsMissing(vals[i])})

C19_PlaceholderMode ==
  /\ fnOnce # <<>>
  /\ Len(fnInput.data) > 0
  /\ Cell(fnInput.data[1], <<"a">>) = Str(<<"n","a">>)
  /\ Count(Present, Str(<<"O","t","h","e","r">>)) = 2
  /\ fnOnce.mode = Str(<<"O","t","h","e","r">>)

\* ------------------------------------------- removal of missing values
\* the removal step of handleClean: handleMissingValues declares six
\* parameters, so config.missingTarget and config.missingColumns, passed
\* seventh and eighth, are not received; the column list of the result is
\* adopted when the result has one
RemoveStep(data, cols, c) ==
  LET stats == analyzeColumns(data, cols)
      removeResult == handleMissingValues(data, cols, stats, "remove", Undef,
                                          c.missingThreshold)
  IN [ data |-> removeResult.data,
       columns |-> IF "columns" \in DOMAIN removeResult THEN removeResult.columns ELSE cols,
       logs |-> removeResult.logs ]

RemoveCells == << {Null, Whole(1)}, {Null, Str(<<>>), Str(<<"x">>)} >>
RemoveRows == {row \in [DOMAIN FnColumns -> UNION Range(RemoveCells)] :
                 \A i \in DOMAIN FnColumns : row[i] \in RemoveCells[i]}
RemoveTables == UNION {[1..n -> RemoveRows] : n \in 0..MaxFnRows}
\* the removal settings of the cleaning options
RemoveConfigs ==
  [ missingTarget : {"rows", "columns"},
    missingColumns : {<<>>, SubSeq(FnColumns, 1, 1), FnColumns},
    missingThreshold : {Num(basicMissingThreshold), Num(0)} ]

RemoveInit ==
  /\ PageInit
  /\ fnInput \in {[data |-> Upload(FnColumns, rows), config |-> c] :
                    rows \in RemoveTables, c \in RemoveConfigs}
  /\ fnOnce = <<>>
  /\ fnTwice = <<>>

RemoveOnce ==
  /\ fnInput # <<>> /\ fnOnce = <<>>
  /\ fnOnce' = RemoveStep(fnInput.data, FnColumns, fnInput.config)
  /\ UNCHANGED <<indexVars, componentVars, runVars, historyVars, fnInput, fnTwice>>

RemoveNext == RemoveOnce

RemoveSpec == RemoveInit /\ [][RemoveNext]_vars

\* the columns to drop: those named, or when none is named those whose
\* missing percentage exceeds threshold * 100
ColumnsToDrop ==
  IF fnInput.config.missingColumns # <<>> THEN Range(fnInput.config.missingColumns)
  ELSE {col \in Range(FnColumns) :
          analyzeColumn(fnInput.data, col).missingPercentage
            > fnInput.config.missingThreshold.n * 100}

\* C20: with target columns the removal drops the named columns, or those
\* whose missing percentage exceeds threshold * 100, keeps every row, and
\* the caller holds the updated column list
C20_ColumnsDropped ==
  (fnOnce # <<>> /\ fnInput.config.missingTarget = "columns") =>
    /\ fnOnce.columns = FilterSeq(FnColumns, {i \in DOMAIN FnColumns : FnColumns[i] \notin ColumnsToDrop})
    /\ Len(fnOnce.data) = Len(fnInput.data)
    /\ \A r \in DOMAIN fnInput.data :
         fnOnce.data[r].obj
           = FilterSeq(fnInput.data[r].obj,
                       {i \in DOMAIN fnInput.data[r].obj :
                          fnInput.data[r].obj[i].k \notin ColumnsToDrop})

\* what the removal does whatever the target: the column list is kept and
\* the rows kept are those whose share of missing cells is within threshold
C20_RowsDroppedColumnsKept ==
  fnOnce # <<>> =>
    /\ fnOnce.columns = FnColumns
    /\ fnOnce.data = MissingRowsFilter(fnInput.data, FnColumns, fnInput.config.missingThreshold)

\* target columns with column a named: a row was dropped and a is kept
C20_RowDroppedForColumns ==
  /\ fnOnce # <<>>
  /\ fnInput.config.missingTarget = "columns"
  /\ fnInput.config.missingColumns = SubSeq(FnColumns, 1, 1)
  /\ Len(fnOnce.data) < Len(fnInput.data)
  /\ Contains(fnOnce.columns, <<"a">>)

\* ------------------------------------------------- low-variance pruning
\* the low-variance stage of a run: the statistics are recomputed, the
\* result replaces the running table and the running column list
LowVarianceStage(data, cols) ==
  LET result == removeLowVarianceFeatures(data, cols, analyzeColumns(data, cols),
                                          lowVarianceThreshold)
  IN [data |-> result.data, columns |-> result.columns, logs |-> result.logs]

\* numbers a hundredth apart, numbers far apart, gaps, and text
VarianceCells == << {Null, Num(Unit), Num(Unit + 1), Whole(2)},
                    {Str(<<"x">>), Str(<<"y">>)} >>
VarianceRows == {row \in [DOMAIN FnColumns -> UNION Range(VarianceCells)] :
                   \A i \in DOMAIN FnColumns : row[i] \in VarianceCells[i]}
VarianceTables == UNION {[1..n -> VarianceRows] : n \in 0..MaxFnRows}

VarianceInit ==
  /\ PageInit
  /\ fnInput \in {[data |-> Upload(FnColumns, rows)] : rows \in VarianceTables}
  /\ fnOnce = <<>>
  /\ fnTwice = <<>>

VarianceOnce ==
  /\ fnInput # <<>> /\ fnOnce = <<>>
  /\ fnOnce' = LowVarianceStage(fnInput.data, FnColumns)
  /\ UNCHANGED <<indexVars, componentVars, runVars, historyVars, fnInput, fnTwice>>

VarianceNext == VarianceOnce

VarianceSpec == VarianceInit /\ [][VarianceNext]_vars

RECURSIVE SumSquares(_)
SumSquares(nums) == IF nums = <<>> THEN 0 ELSE Head(nums) * Head(nums) + SumSquares(Tail(nums))

\* the variance (n * sum of squares - square of the sum) / n^2 of the
\* numbers is below the threshold, both in units of 1/Unit
VarianceBelow(nums, threshold) ==
  Len(nums) * SumSquares(nums) - SeqSum(nums) * SeqSum(nums)
    < threshold * Len(nums) * Len(nums) * Unit

\* a column of numbers only whose variance is below the threshold
LowVarianceNumeric(col) ==
  LET present == FilterSeq(Column(fnInput.data, col),
                           {r \in DOMAIN fnInput.data : ~IsMissing(Cell(fnInput.data[r], col))})
  IN /\ present # <<>>
     /\ \A i \in DOMAIN present : present[i].t = "num"
     /\ VarianceBelow(Numbers(present), lowVarianceThreshold)

\* a column with at most one unique non-missing value
AtMostOneValue(col) ==
  Cardinality({StringOf(Cell(fnInput.data[r], col)) :
                 r \in {q \in DOMAIN fnInput.data : ~IsMissing(Cell(fnInput.data[q], col))}}) <= 1

\* the column is in neither the running column list nor any row
Dropped(col) ==
  /\ ~Contains(fnOnce.columns, col)
  /\ \A r \in DOMAIN fnOnce.data : ~Has(fnOnce.data[r].obj, col)

\* C21: low-variance pruning drops every numeric column whose variance is
\* below the threshold, and every column with at most one unique value,
\* from the table and from the running column list
C21_LowVarianceDropped ==
  fnOnce # <<>> =>
    \A i \in DOMAIN FnColumns :
      (LowVarianceNumeric(FnColumns[i]) \/ AtMostOneValue(FnColumns[i])) => Dropped(FnColumns[i])

\* what the stage does: the columns with at most one unique value are
\* dropped and no other column is
C21_SingleValueDropped ==
  fnOnce # <<>> =>
    \A i \in DOMAIN FnColumns : AtMostOneValue(FnColumns[i]) <=> Dropped(FnColumns[i])

\* a numeric column holding 1 and 1.01 is kept while another column goes
C21_LowVarianceKept ==
  /\ fnOnce # <<>>
  /\ LowVarianceNumeric(<<"a">>) /\ ~AtMostOneValue(<<"a">>)
  /\ Contains(fnOnce.columns, <<"a">>)
  /\ Dropped(<<"b">>)

\* ------------------------------------------ target encoding without target
\* the run resumes in the encoding loop with target encoding selected and
\* no target column set
EncodesWithoutTarget ==
  /\ Ready("encoding")
  /\ cfg.encodingMethod = "target" /\ cfg.targetColumn = <<>>
  /\ trace' = Append(trace, "encoding")

\* C22: target encoding without a target column is surfaced as a log entry
\* of category error while the table passes through unchanged
C22_MissingTargetLogged ==
  [][EncodesWithoutTarget =>
       /\ Len(runLogs') > Len(runLogs)
       /\ \E i \in DOMAIN runLogs' : runLogs'[i].category = "error"
       /\ Plain(processedData') = Plain(processedData)]_vars

\* what the loop does instead: the table passes through and nothing is logged
C22_MissingTargetSilent ==
  [][EncodesWithoutTarget =>
       /\ runLogs' = runLogs
       /\ Plain(processedData') = Plain(processedData)]_vars

\* a run has passed the encoding loop without a target and logged no error
C22_SilentRunReached ==
  /\ pc # "idle" /\ Contains(trace, "encoding")
  /\ cfg.encodingMethod = "target" /\ cfg.targetColumn = <<>>
  /\ \A i \in DOMAIN runLogs : runLogs[i].category # "error"

\* ------------------------------------------------- replaying a scaler
\* the value applyScaler writes for a number: a scaler whose parameters
\* hold no mean and std (the robust one holds median and iqr) leaves it
ApplyValue(scaler, col, value) ==
  LET p == scaler.params[col]
  IN CASE scaler.method = "standard" ->
            IF p.nan \/ value.t = "nan" THEN NaN
            ELSE Num(RoundDiv((value.n - p.mean) * Unit, p.std))
       [] scaler.method = "minmax" ->
            IF p.nan \/ value.t = "nan" THEN NaN
            ELSE Num(RoundDiv((value.n - p.min) * Unit,
                              IF p.max - p.min = 0 THEN Unit ELSE p.max - p.min))
       [] scaler.method = "robust" ->
            IF "mean" \in DOMAIN p /\ "std" \in DOMAIN p
            THEN Num(RoundDiv((value.n - p.mean) * Unit, p.std))
            ELSE value

applyScaler(data, scaler) ==
  [r \in DOMAIN data |->
     LET numeric == FilterSeq(scaler.columns,
                              {i \in DOMAIN scaler.columns :
                                 IsNumber(Cell(data[r], scaler.columns[i]))})
     IN Fresh(PutSeq(data[r].obj, numeric,
                     [i \in DOMAIN numeric |->
                        ApplyValue(scaler, numeric[i], Cell(data[r], numeric[i]))]))]

\* the scaling calls replayed: each method, min-max with both target ranges
ReplayCalls == ScaleCalls \cup {[method |-> "robust", featureRange |-> defaultFeatureRange]}

ReplayInit ==
  /\ PageInit
  /\ fnInput \in {[data |-> Upload(FnColumns, rows), call |-> call] :
                    rows \in ScaleTables, call \in ReplayCalls}
  /\ fnOnce = <<>>
  /\ fnTwice = <<>>

\* the scaling call, which fits and returns the scaler
FitOnce ==
  /\ fnInput # <<>> /\ fnOnce = <<>>
  /\ fnOnce' = CASE fnInput.call.method = "standard" -> standardScale(fnInput.data, FnColumns)
                 [] fnInput.call.method = "minmax" ->
                      minMaxScale(fnInput.data, FnColumns, fnInput.call.featureRange)
                 [] fnInput.call.method = "robust" -> robustScale(fnInput.data, FnColumns)
  /\ UNCHANGED <<indexVars, componentVars, runVars, historyVars, fnInput, fnTwice>>

\* applyScaler(data, scaler) on the table the scaler was fitted on
ReplayOnce ==
  /\ fnOnce # <<>> /\ fnTwice = <<>>
  /\ fnTwice' = [data |-> applyScaler(fnInput.data, fnOnce.scaler)]
  /\ UNCHANGED <<indexVars, componentVars, runVars, historyVars, fnInput, fnOnce>>

ReplayNext == FitOnce \/ ReplayOnce

ReplaySpec == ReplayInit /\ [][ReplayNext]_vars

\* the replay gives every number of every scaled column the value of the
\* scaling call
SameScaling ==
  \A col \in Range(fnOnce.scaler.columns) : \A r \in DOMAIN fnInput.data :
    Cell(fnInput.data[r], col).t = "num" =>
      Cell(fnTwice.data[r], col) = Cell(fnOnce.data[r], col)

\* C23: for the standard, the min-max and the robust scaler, applyScaler
\* with the retained scaler on the fitted table gives every numeric cell of
\* every scaled column the value the scaling call produced
C23_ReplayReproduces == fnTwice # <<>> => SameScaling

\* the same for the standard scaler and min-max to the default range
C23_ReplayReproducesMeanStdMinMax ==
  ( /\ fnTwice # <<>>
    /\ fnInput.call.method \in {"standard", "minmax"}
    /\ fnInput.call.featureRange = defaultFeatureRange ) => SameScaling

\* a robust scaler replayed: a scaled number differs and the replay
\* returned the input value
C23_RobustReplayUnscaled ==
  /\ fnTwice # <<>>
  /\ fnInput.call.method = "robust"
  /\ \E r \in DOMAIN fnInput.data :
       /\ Cell(fnInput.data[r], <<"a">>).t = "num"
       /\ Cell(fnOnce.data[r], <<"a">>) # Cell(fnInput.data[r], <<"a">>)
       /\ Cell(fnTwice.data[r], <<"a">>) = Cell(fnInput.data[r], <<"a">>)

\* ------------------------------------------------ forward and backward fill
FillDirCells == << {Null, Str(<<>>), Whole(1), Whole(2)}, {Null, Str(<<"x">>)} >>
FillDirRows == {row \in [DOMAIN FnColumns -> UNION Range(FillDirCells)] :
                  \A i \in DOMAIN FnColumns : row[i] \in FillDirCells[i]}
FillDirTables == UNION {[1..n -> FillDirRows] : n \in 0..MaxFnRows}

FillDirInit ==
  /\ PageInit
  /\ fnInput \in {[data |-> Upload(FnColumns, rows), strategy |-> strategy] :
                    rows \in FillDirTables, strategy \in {"forward", "backward"}}
  /\ fnOnce = <<>>
  /\ fnTwice = <<>>

\* handleMissingValues(data, columns, columnStats, 'forward' | 'backward')
FillDirOnce ==
  /\ fnInput # <<>> /\ fnOnce = <<>>
  /\ fnOnce' = handleMissingValues(fnInput.data, FnColumns,
                                   analyzeColumns(fnInput.data, FnColumns),
                                   fnInput.strategy, Undef, Undef)
  /\ UNCHANGED <<indexVars, componentVars, runVars, historyVars, fnInput, fnTwice>>

FillDirNext == FillDirOnce

FillDirSpec == FillDirInit /\ [][FillDirNext]_vars

\* the rows of the input whose missing cell of the column has a source
Fillable(col) ==
  {i \in DOMAIN fnInput.data :
     /\ IsMissing(Cell(fnInput.data[i], col))
     /\ FillSource(fnInput.data, col, i, fnInput.strategy = "forward") # Null}

\* one entry per column with a filled cell, in column order
ExpectedFillLogs ==
  LET filledColumns == FilterSeq(FnColumns, {i \in DOMAIN FnColumns : Fillable(FnColumns[i]) # {}})
  IN [i \in DOMAIN filledColumns |->
        Log(IF fnInput.strategy = "forward" THEN "Forward Fill" ELSE "Backward Fill",
            filledColumns[i], Cardinality(Fillable(filledColumns[i])), "cleaning")]

\* C24: forward (backward) fill gives each missing cell the value of the
\* nearest earlier (later) row whose cell was non-missing in the input, per
\* column; a missing cell without such a row and every non-missing cell are
\* unchanged; one log entry per column with a filled cell reports the count
C24_NearestValueFilled ==
  fnOnce # <<>> =>
    /\ Len(fnOnce.data) = Len(fnInput.data)
    /\ \A i \in DOMAIN fnInput.data : \A c \in DOMAIN FnColumns :
         Cell(fnOnce.data[i], FnColumns[c])
           = IF i \in Fillable(FnColumns[c])
             THEN FillSource(fnInput.data, FnColumns[c], i, fnInput.strategy = "forward")
             ELSE Cell(fnInput.data[i], FnColumns[c])
    /\ fnOnce.logs = ExpectedFillLogs

\* forward fill of a column (missing, 1, missing, ...): the leading cell
\* stays missing, the trailing one is filled, and the entry counts it
C24_Witness ==
  /\ fnOnce # <<>>
  /\ fnInput.strategy = "forward"
  /\ Len(fnInput.data) = 3
  /\ Column(fnInput.data, <<"a">>) = <<Null, Whole(1), Str(<<>>)>>
  /\ Column(fnOnce.data, <<"a">>) = <<Null, Whole(1), Whole(1)>>
  /\ \E i \in DOMAIN fnOnce.logs :
       fnOnce.logs[i].column = <<"a">> /\ fnOnce.logs[i].rowsAffected = 1

\* backward fill of a run of two missing cells from the row after it
C24_BackwardRun ==
  /\ fnOnce # <<>>
  /\ fnInput.strategy = "backward"
  /\ Len(fnInput.data) = 3
  /\ Column(fnInput.data, <<"a">>) = <<Null, Null, Whole(2)>>
  /\ Column(fnOnce.data, <<"a">>) = <<Whole(2), Whole(2), Whole(2)>>

\* ------------------------------------------- feature stages, applied twice
\* the number of clusters chosen in the geo panel
AdditiveClusters == 2

AdditiveOperations == {"time", "rolling", "lag", "polynomial", "binning", "grid", "cluster", "hex"}

AdditiveCells == << {Null, Whole(1), Whole(2)}, {Whole(1), Str(<<"x">>)} >>
AdditiveRows == {row \in [DOMAIN FnColumns -> UNION Range(AdditiveCells)] :
                   \A i \in DOMAIN FnColumns : row[i] \in AdditiveCells[i]}
AdditiveTables == UNION {[1..n -> AdditiveRows] : n \in 0..MaxFnRows}

\* the feature or geo stage of the orchestrator on columns a and b
FeatureStage(data, operation, assignments) ==
  CASE operation = "time" -> extractTimeFeatures(data, <<"a">>, TimeFeatureNames)
    [] operation = "rolling" -> createRollingFeatures(data, <<"a">>, rollingWindows, RollingFunctions)
    [] operation = "lag" -> createLagFeatures(data, <<"a">>, lagPeriods)
    [] operation = "polynomial" -> createPolynomialFeatures(data, FnColumns, polynomialDegree)
    [] operation = "binning" -> binNumericFeature(data, <<"a">>, "uniform", binCount)
    [] operation = "grid" -> gridEncode(data, <<"a">>, <<"b">>, gridSize)
    [] operation = "cluster" -> geoCluster(data, <<"a">>, <<"b">>, AdditiveClusters, assignments)
    [] operation = "hex" -> hexEncode(data, <<"a">>, <<"b">>, hexResolution)

\* the cluster assignments k-means can end with, for the chosen count
AdditiveOutcomes(data, operation) ==
  LET valid == ValidPoints(data, <<"a">>, <<"b">>)
  IN IF operation # "cluster" \/ Cardinality(valid) < AdditiveClusters THEN {<<>>}
     ELSE [valid -> 0..(AdditiveClusters - 1)]

AdditiveInit ==
  /\ PageInit
  /\ fnInput \in {[data |-> Upload(FnColumns, rows), operation |-> operation, scaling |-> scaling] :
                    rows \in AdditiveTables, operation \in AdditiveOperations,
                    scaling \in BOOLEAN}
  /\ fnOnce = <<>>
  /\ fnTwice = <<>>

\* a first run: the feature stage, then the scaling stage on column a when
\* it is enabled; the result is the processed table the panel gets next
FirstRun ==
  /\ fnInput # <<>> /\ fnOnce = <<>>
  /\ \E assignments \in AdditiveOutcomes(fnInput.data, fnInput.operation) :
       \E feature \in {FeatureStage(fnInput.data, fnInput.operation, assignments).data} :
         fnOnce' = [feature |-> feature,
                    data |-> IF fnInput.scaling
                             THEN standardScale(feature, << <<"a">> >>).data
                             ELSE feature]
  /\ UNCHANGED <<indexVars, componentVars, runVars, historyVars, fnInput, fnTwice>>

\* the same feature stage in a run on the processed table
SecondRun ==
  /\ fnOnce # <<>> /\ fnTwice = <<>>
  /\ \E assignments \in AdditiveOutcomes(fnOnce.data, fnInput.operation) :
       fnTwice' = [data |-> FeatureStage(fnOnce.data, fnInput.operation, assignments).data]
  /\ UNCHANGED <<indexVars, componentVars, runVars, historyVars, fnInput, fnOnce>>

AdditiveNext == FirstRun \/ SecondRun

AdditiveSpec == AdditiveInit /\ [][AdditiveNext]_vars

\* same number of rows, and every key of every row keeps its value
Preserved(before, after) ==
  /\ Len(after) = Len(before)
  /\ \A i \in DOMAIN before : \A k \in Range(Keys(before[i].obj)) :
       Cell(after[i], k) = Cell(before[i], k)

\* C25: every feature and geo operation keeps the rows and leaves every
\* column that existed before it with its previous value in every row, also
\* when applied to an already processed table
C25_PurelyAdditive ==
  /\ fnOnce # <<>> => Preserved(fnInput.data, fnOnce.feature)
  /\ fnTwice # <<>> => Preserved(fnOnce.data, fnTwice.data)

\* C25, on a table that holds none of the operation's output columns
C25_AdditiveOnFreshTable ==
  fnOnce # <<>> => Preserved(fnInput.data, fnOnce.feature)

\* a lag stage on a table of three rows with values in column a
C25_LagOnFreshTable ==
  /\ fnOnce # <<>>
  /\ fnInput.operation = "lag"
  /\ Column(fnInput.data, <<"a">>) = <<Whole(1), Whole(2), Whole(2)>>
  /\ Column(fnOnce.feature, <<"a","_","l","a","g","_","1">>) = <<Null, Whole(1), Whole(2)>>
  /\ Preserved(fnInput.data, fnOnce.feature)

\* the second run overwrites a column the first run left in the table
C25_SecondRunOverwrites ==
  /\ fnTwice # <<>>
  /\ \E i \in DOMAIN fnOnce.data : \E k \in Range(Keys(fnOnce.data[i].obj)) :
       Cell(fnTwice.data[i], k) # Cell(fnOnce.data[i], k)

\* ------------------------------------------------- results of a stale run
\* the step in which a run delivers its result
Delivery == outcome = "running" /\ outcome' = "delivered"

\* the dataset of the click is no longer the dataset of the page: the page
\* was reset, or holds a file with other columns than at the click
DatasetReplaced == originalData = <<>> \/ columns # onApplyColumns

\* C26: a run that completes after a reset or a new file load at one of its
\* yield points does not set the cleaned data, cleaned columns, statistics
\* or logs of the page
C26_StaleResultDiscarded ==
  [][(Delivery /\ DatasetReplaced)
       => UNCHANGED <<cleanedData, cleanedColumns, cleanedColumnStats, logs>>]_vars

\* every completing run installs its result as the cleaned table of the page
C26_ResultInstalled ==
  [][Delivery => /\ cleanedData' = removeAllNullColumns(processedData, Unit).data
                 /\ Len(logs') >= Len(logs)]_vars

\* a page without a dataset shows the cleaned table of a run that was
\* suspended when New File was pressed
C26_StaleResultInstalled ==
  /\ outcome = "delivered"
  /\ originalData = <<>>
  /\ Len(cleanedData) > 0
  /\ Len(logs) > 0

\* ------------------------------------- configured names after normalization
\* the column names the code of stage s reads from the configuration
StageColumns(c, s) ==
  CASE s = "time" -> {c.timeColumn}
    [] s = "rolling" -> {c.rollingColumn}
    [] s = "lag" -> {c.lagColumn}
    [] s = "polynomial" -> Range(c.polynomialColumns)
    [] s = "binning" -> {c.binColumn}
    [] s = "geo" -> {c.latColumn, c.lonColumn}
    [] s = "encoding" -> Range(c.encodingColumns)
                         \cup (IF c.encodingMethod = "target" THEN {c.targetColumn} \ {<<>>} ELSE {})
    [] s = "scaling" -> Range(c.scalingColumns)
    [] s = "model" -> {c.targetColumn}
    [] OTHER -> {}

\* the stages that take columns out of the running table
ColumnRemoving == {"highMissing", "lowVariance", "encoding"}

\* a run with normalization done is about to execute stage s, no column
\* was removed so far, and the table has rows
UsesAfterNormalize(s) ==
  /\ Ready(s) /\ phase = 0
  /\ \E i \in DOMAIN trace : trace[i] = "normalize"
  /\ \A i \in DOMAIN trace : trace[i] \notin ColumnRemoving
  /\ Len(processedData) > 0

\* every row of the running table has the key
InTable(col) == \A r \in DOMAIN processedData : Has(processedData[r].obj, col)

\* C27: after column-name normalization every configured name that named a
\* column of the input still names a column of the running table at the
\* stage that uses it
C27_ConfiguredNamesFollowRename ==
  \A s \in Range(Order) :
    UsesAfterNormalize(s) =>
      \A col \in StageColumns(cfg, s) : col \in Range(onApplyColumns) => InTable(col)

\* C27, for the configured names that normalization leaves as they are
C27_UnchangedNamesKept ==
  \A s \in Range(Order) :
    UsesAfterNormalize(s) =>
      \A col \in StageColumns(cfg, s) :
        (col \in Range(onApplyColumns) /\ NormalizeName(col) = col) => InTable(col)

\* a stage about to use a configured name that normalization left alone
C27_UnchangedNameUsed ==
  \E s \in Range(Order) :
    /\ UsesAfterNormalize(s)
    /\ \E col \in StageColumns(cfg, s) :
         col \in Range(onApplyColumns) /\ NormalizeName(col) = col /\ InTable(col)

\* a stage about to use a configured name that normalization renamed
C27_RenamedNameUsed ==
  \E s \in Range(Order) :
    /\ UsesAfterNormalize(s)
    /\ \E col \in StageColumns(cfg, s) :
         /\ col \in Range(onApplyColumns) /\ ~InTable(col)
         /\ InTable(NormalizeName(col))

\* ------------------------------------------- the final all-null column stage
AllNullCells == << {Null, Str(<<"x">>), Whole(2)}, {Null, Str(<<>>), Whole(1)} >>
AllNullRows == {row \in [DOMAIN FnColumns -> UNION Range(AllNullCells)] :
                  \A i \in DOMAIN FnColumns : row[i] \in AllNullCells[i]}
AllNullTables == UNION {[1..n -> AllNullRows] : n \in 0..MaxFnRows}

AllNullInit ==
  /\ PageInit
  /\ fnInput \in {[data |-> Upload(FnColumns, rows), polynomial |-> polynomial] :
                    rows \in AllNullTables, polynomial \in BOOLEAN}
  /\ fnOnce = <<>>
  /\ fnTwice = <<>>

\* the polynomial stage on column a when it is enabled, with the column list
\* read off row 0
PolynomialOnce ==
  /\ fnInput # <<>> /\ fnOnce = <<>>
  /\ \E data \in {IF fnInput.polynomial
                  THEN createPolynomialFeatures(fnInput.data, << <<"a">> >>, polynomialDegree).data
                  ELSE fnInput.data} :
       fnOnce' = [data |-> data, columns |-> KeysOrCurrent(data, FnColumns)]
  /\ UNCHANGED <<indexVars, componentVars, runVars, historyVars, fnInput, fnTwice>>

\* cleanNaNValues and removeAllNullColumns(processedData, 1.0), the end of a run
FinalStages ==
  /\ fnOnce # <<>> /\ fnTwice = <<>>
  /\ \E cleaned \in {cleanNaNValues(fnOnce.data, fnOnce.columns).data} :
       \E result \in {removeAllNullColumns(cleaned, Unit)} :
         fnTwice' = [before |-> cleaned, data |-> result.data, columns |-> result.columns,
                     logs |-> result.logs]
  /\ UNCHANGED <<indexVars, componentVars, runVars, historyVars, fnInput, fnOnce>>

AllNullNext == PolynomialOnce \/ FinalStages

AllNullSpec == AllNullInit /\ [][AllNullNext]_vars

\* the keys of the rows of a table
AllKeys(data) == UNION {Range(Keys(data[r].obj)) : r \in DOMAIN data}

\* some row holds a non-missing cell of the column
HoldsValue(data, col) == \E r \in DOMAIN data : ~IsMissing(Cell(data[r], col))

\* the column is in the final column list, with its cells, in every row
Survives(col) ==
  /\ col \in Range(fnTwice.columns)
  /\ Len(fnTwice.data) = Len(fnTwice.before)
  /\ \A r \in DOMAIN fnTwice.before : Cell(fnTwice.data[r], col) = Cell(fnTwice.before[r], col)

\* C28: the final stage removes a column only if its cell is missing in
\* every row; a column with a non-missing cell in some row survives with its
\* values in the final table and column list, also when row 0 has no key for it
C28_ValuedColumnsSurvive ==
  fnTwice # <<>> =>
    \A col \in AllKeys(fnTwice.before) : HoldsValue(fnTwice.before, col) => Survives(col)

\* C28, for the columns that are keys of row 0
C28_ValuedColumnsOfFirstRowSurvive ==
  fnTwice # <<>> =>
    \A col \in AllKeys(fnTwice.before) :
      (HoldsValue(fnTwice.before, col) /\ Has(fnTwice.before[1].obj, col)) => Survives(col)

\* column b is missing in every row and is removed, column a holds a value
\* in a later row only and survives
C28_Witness ==
  /\ fnTwice # <<>>
  /\ Len(fnTwice.before) = 2
  /\ Column(fnTwice.before, <<"a">>) = <<Null, Whole(2)>>
  /\ ~HoldsValue(fnTwice.before, <<"b">>)
  /\ fnTwice.columns = << <<"a">> >>
  /\ Survives(<<"a">>)

\* a polynomial feature written on a later row only is gone from every row
C28_FeatureLost ==
  /\ fnTwice # <<>>
  /\ HoldsValue(fnTwice.before, <<"a","_","p","o","w","2">>)
  /\ \A r \in DOMAIN fnTwice.data : ~Has(fnTwice.data[r].obj, <<"a","_","p","o","w","2">>)

\* ------------------------------------------------------ row accounting
\* the operations that take rows out of the table
RowRemoving == {"Remove Duplicates", "Remove Near-Duplicates", "Remove Missing Values",
                "Outlier Removal"}

\* the sum of rowsAffected over the entries of the row-removing operations
Removed(log) ==
  SeqSum([i \in DOMAIN log |-> IF log[i].operation \in RowRemoving THEN log[i].rowsAffected ELSE 0])

RECURSIVE IsSubsequence(_, _)
\* the rows of `part` are rows of `whole`, in the same relative order
IsSubsequence(part, whole) ==
  IF part = <<>> THEN TRUE
  ELSE IF whole = <<>> THEN FALSE
  ELSE IF Head(part) = Head(whole) THEN IsSubsequence(Tail(part), Tail(whole))
  ELSE IsSubsequence(part, Tail(whole))

HeaderNames == { <<"A"," ","b">>, <<"a","_","b">>, <<"x">>, <<" ","x">>, <<"!">> }

\* the headers of a file: distinct names
HeaderLists ==
  {<<n>> : n \in HeaderNames}
    \cup {pair \in {<<n, m>> : n \in HeaderNames, m \in HeaderNames} : pair[1] # pair[2]}

HeaderTables(cols) ==
  UNION {[1..n -> [DOMAIN cols -> {Whole(1), Whole(2)}]] : n \in 1..(MaxFnRows - 1)}

HeaderInit ==
  /\ PageInit
  /\ fnInput \in UNION {{[data |-> Upload(cols, rows), columns |-> cols] :
                           rows \in HeaderTables(cols)} : cols \in HeaderLists}
  /\ fnOnce = <<>>
  /\ fnTwice = <<>>

\* the normalize stage of the orchestrator: the rows rekeyed with the
\* mapping, the column list replaced
NormalizeOnce ==
  /\ fnInput # <<>> /\ fnOnce = <<>>
  /\ \E result \in {normalizeColumnNames(fnInput.columns)} :
       fnOnce' = [data |-> [r \in DOMAIN fnInput.data |->
                              Fresh(RenameKeys(fnInput.data[r].obj, result.mapping))],
                  columns |-> result.columns]
  /\ UNCHANGED <<indexVars, componentVars, runVars, historyVars, fnInput, fnTwice>>

HeaderNext == NormalizeOnce

HeaderSpec == HeaderInit /\ [][HeaderNext]_vars

\* the running column list has no duplicates and no empty name
DistinctNonEmpty(cols) ==
  /\ \A i, j \in DOMAIN cols : i # j => cols[i] # cols[j]
  /\ \A i \in DOMAIN cols : cols[i] # <<>>

\* every row has as many keys as before and each cell keeps its value under
\* the mapped name of its column
CellsKept ==
  \A r \in DOMAIN fnInput.data :
    /\ Len(fnOnce.data[r].obj) = Len(fnInput.data[r].obj)
    /\ \A i \in DOMAIN fnInput.columns :
         Cell(fnOnce.data[r], fnOnce.columns[i]) = Cell(fnInput.data[r], fnInput.columns[i])

\* C30: normalization maps distinct column names to distinct non-empty
\* names; after the rows are rekeyed the column list has no duplicates,
\* every row has as many keys as before and each cell keeps its value under
\* the mapped name of its column
C30_NoColumnMergedOrLost ==
  fnOnce # <<>> => (DistinctNonEmpty(fnOnce.columns) /\ CellsKept)

\* C30, for headers whose normalized names are distinct and not empty
C30_DistinctNamesKeepCells ==
  (fnOnce # <<>> /\ DistinctNonEmpty(fnOnce.columns)) => CellsKept

\* the headers 'A b' and 'x' become 'a_b' and 'x' with their cells
C30_Witness ==
  /\ fnOnce # <<>>
  /\ fnInput.columns = << <<"A"," ","b">>, <<"x">> >>
  /\ fnOnce.columns = << <<"a","_","b">>, <<"x">> >>
  /\ CellsKept

\* the headers 'A b' and 'a_b' end as one key: a row with two different
\* cells has one key left
C30_ColumnsMerged ==
  /\ fnOnce # <<>>
  /\ fnInput.columns = << <<"A"," ","b">>, <<"a","_","b">> >>
  /\ fnOnce.columns = << <<"a","_","b">>, <<"a","_","b">> >>
  /\ \E r \in DOMAIN fnInput.data :
       /\ Cell(fnInput.data[r], <<"A"," ","b">>) # Cell(fnInput.data[r], <<"a","_","b">>)
       /\ Len(fnOnce.data[r].obj) = 1

====
